---- MODULE Spec2Model ----
(***************************************************************************)
(* Model of the authentication core of the React Native login template:    *)
(* the rate limiter (utils/delay.js), the credential store                 *)
(* (utils/storage.js) and the auth actions (auth/authActions.js).          *)
(*                                                                         *)
(* Every exported async function is one action: the functions are called   *)
(* one at a time, each runs to completion, and wall-clock time passes      *)
(* between calls (Tick) and inside delay().  A JS null is the empty tuple  *)
(* <<>>, a non-null value v is <<v>>.  Times are milliseconds.             *)
(***************************************************************************)
EXTENDS Integers, Sequences, FiniteSets, TLC

\* ------------------------------------------------------------------ bounds
\* The clock stops advancing here (a login cooldown and a little more), ms.
MaxClock == 1000000
\* Largest attemptCount, and the number of base/max choices, fed to the
\* backoff calculator on its own.
MaxAttemptArg == 7
\* A run makes at most this many calls and clock steps: of the library
\* functions, of the four auth actions, and of login and registration alone.
MaxSteps == 8
MaxAppSteps == 4
MaxSignInSteps == 6
\* ... and of the credential store's functions when the backend may fail.
MaxStoreFaultSteps == 3
\* ... and of the rate limiter's functions when AsyncStorage may fail.
MaxLimiterFaultSteps == 4
\* ... and of the six auth actions when the backends may fail.
MaxAppFaultSteps == 1
\* ... and of the sign-in and sign-up screens.
MaxScreenSteps == 6
\* ... and of sign-in and sign-up by a throttled user over failing backends.
MaxThrottledSteps == 1
MaxListenerRequests == 2
MaxContextRequests == 1
\* ... and of the requests the user starts in the running app.
MaxAppRequests == 3
\* ... and of sign-in and sign-up with the backoff wait as a step of its own.
MaxWaitSteps == 4
\* The largest count a record holds when two recordAttempt calls race.
MaxRaceCount == 4
\* ... and of the rate limiter and the credential store side by side.
MaxSideBySideSteps == 2
\* The plain one-minute step of the clock is taken up to this time only.
MaxMinuteTick == 60000
\* recordLoginAttempt(false) / recordRegisterAttempt(false) are not called
\* again once a stored count has reached this.
MaxCount == 6

\* --------------------------------------------------------------- JS values
Null == <<>>
Some(v) == <<v>>
Val(o) == o[1]

\* Date.prototype.toISOString: "YYYY-MM-DDTHH:mm:ss.sssZ", kept as the pair
\* <<whole seconds since the epoch, milliseconds>>.
toISOString(t) == <<t \div 1000, t % 1000>>

\* new Date(isoString).getTime()
DateFromISO(s) == s[1] * 1000 + s[2]

\* Math.pow(2, k) for k >= 0
RECURSIVE MathPow2(_)
MathPow2(k) == IF k <= 0 THEN 1 ELSE 2 * MathPow2(k - 1)

MathMin(a, b) == IF a <= b THEN a ELSE b

\* Mutant: the quotient rounded down instead of up.
MathFloorDiv(a, b) == a \div b

\* Math.ceil(a / b) for b > 0
MathCeilDiv(a, b) == IF a % b = 0 THEN a \div b ELSE (a \div b) + 1

\* ------------------------------------------------------------ utils/delay.js
\* Mutant: the registration record is kept under the last-login key.
RATE_LIMIT_KEYS_Colliding ==
  [LOGIN_ATTEMPTS |-> "rate_limit_login_attempts",
   REGISTER_ATTEMPTS |-> "auth_last_login"]

RATE_LIMIT_KEYS ==
  [LOGIN_ATTEMPTS |-> "rate_limit_login_attempts",
   REGISTER_ATTEMPTS |-> "rate_limit_register_attempts"]

RATE_LIMIT_CONFIG ==
  [MAX_LOGIN_ATTEMPTS |-> 5,
   MAX_REGISTER_ATTEMPTS |-> 3,
   LOGIN_COOLDOWN_MINUTES |-> 15,
   REGISTER_COOLDOWN_MINUTES |-> 5,
   BASE_DELAY_MS |-> 1000,
   MAX_DELAY_MS |-> 10000]

AttemptKeys == {RATE_LIMIT_KEYS.LOGIN_ATTEMPTS, RATE_LIMIT_KEYS.REGISTER_ATTEMPTS}

\* Mutant: the exponent is attemptCount, not attemptCount - 1.
calculateBackoffDelayOffByOne(attemptCount, baseDelay, maxDelay) ==
  MathMin(baseDelay * MathPow2(attemptCount), maxDelay)

calculateBackoffDelay(attemptCount, baseDelay, maxDelay) ==
  LET exponentialDelay == baseDelay * MathPow2(attemptCount - 1)
  IN  MathMin(exponentialDelay, maxDelay)

\* getAttemptData: a failed read is caught and gives the empty record.
getAttemptData(storage, key, readOk) ==
  IF readOk /\ storage[key] # Null
  THEN LET parsed == Val(storage[key])
       IN  [count |-> parsed.count,
            lastAttempt |-> Some(DateFromISO(parsed.lastAttempt))]
  ELSE [count |-> 0, lastAttempt |-> Null]

\* Mutant: the write increments whatever count is stored when it lands.
storeAttemptDataAtomic(storage, key, count, lastAttempt, writeOk) ==
  [storage EXCEPT ![key] =
     Some([count |-> (IF storage[key] = Null THEN 0 ELSE Val(storage[key]).count) + 1,
           lastAttempt |-> toISOString(lastAttempt)])]

\* storeAttemptData: a failed write is caught and leaves the store as it was.
storeAttemptData(storage, key, count, lastAttempt, writeOk) ==
  IF writeOk
  THEN [storage EXCEPT ![key] =
          Some([count |-> count, lastAttempt |-> toISOString(lastAttempt)])]
  ELSE storage

\* An error thrown by a storage backend: it carries no code, only a raw
\* diagnostic message.
StorageError == [code |-> "undefined", message |-> <<"backend failure">>]

\* What an async function did: the AsyncStorage contents it leaves, whether
\* its promise rejected, and the value it resolved to (or the error).
Outcome(storage, threw, value) ==
  [storage |-> storage, threw |-> threw, value |-> value]

NotLimited == [isLimited |-> FALSE, waitTime |-> 0, message |-> <<>>]

\* Mutant: the cooldown still holds at the instant it ends (now <= end).
checkLoginRateLimitLate(storage, now, f) ==
  LET data == getAttemptData(storage, RATE_LIMIT_KEYS.LOGIN_ATTEMPTS, f.read)
      cooldownEndTime ==
        Val(data.lastAttempt) + (RATE_LIMIT_CONFIG.LOGIN_COOLDOWN_MINUTES * 60 * 1000)
      waitTime == MathCeilDiv(cooldownEndTime - now, 1000 * 60)
  IN  IF data.count >= RATE_LIMIT_CONFIG.MAX_LOGIN_ATTEMPTS /\ data.lastAttempt # Null
      THEN IF now <= cooldownEndTime
           THEN Outcome(storage, FALSE,
                        [isLimited |-> TRUE,
                         waitTime |-> waitTime,
                         message |-> <<"Too many login attempts. Please wait ",
                                       waitTime,
                                       " minutes before trying again.">>])
           ELSE Outcome([storage EXCEPT ![RATE_LIMIT_KEYS.LOGIN_ATTEMPTS] = Null],
                        FALSE, NotLimited)
      ELSE Outcome(storage, FALSE, NotLimited)

\* Mutant: the check lets one attempt too many through (count > maximum).
checkLoginRateLimitOneMore(storage, now, f) ==
  LET data == getAttemptData(storage, RATE_LIMIT_KEYS.LOGIN_ATTEMPTS, f.read)
      cooldownEndTime ==
        Val(data.lastAttempt) + (RATE_LIMIT_CONFIG.LOGIN_COOLDOWN_MINUTES * 60 * 1000)
      waitTime == MathCeilDiv(cooldownEndTime - now, 1000 * 60)
  IN  IF data.count > RATE_LIMIT_CONFIG.MAX_LOGIN_ATTEMPTS /\ data.lastAttempt # Null
      THEN IF now < cooldownEndTime
           THEN Outcome(storage, FALSE,
                        [isLimited |-> TRUE,
                         waitTime |-> waitTime,
                         message |-> <<"Too many login attempts. Please wait ",
                                       waitTime,
                                       " minutes before trying again.">>])
           ELSE IF f.remove
                THEN Outcome([storage EXCEPT
                                ![RATE_LIMIT_KEYS.LOGIN_ATTEMPTS] = Null],
                             FALSE, NotLimited)
                ELSE Outcome(storage, TRUE, StorageError)
      ELSE Outcome(storage, FALSE, NotLimited)

\* Mutant: the record is reset as soon as the count has reached the maximum,
\* whether or not the cooldown has run out.
checkLoginRateLimitEager(storage, now, f) ==
  LET data == getAttemptData(storage, RATE_LIMIT_KEYS.LOGIN_ATTEMPTS, f.read)
  IN  IF data.count >= RATE_LIMIT_CONFIG.MAX_LOGIN_ATTEMPTS /\ data.lastAttempt # Null
      THEN Outcome([storage EXCEPT ![RATE_LIMIT_KEYS.LOGIN_ATTEMPTS] = Null],
                   FALSE, NotLimited)
      ELSE Outcome(storage, FALSE, NotLimited)

\* f says which AsyncStorage calls succeed: [read, write, remove].
checkLoginRateLimit(storage, now, f) ==
  LET data == getAttemptData(storage, RATE_LIMIT_KEYS.LOGIN_ATTEMPTS, f.read)
      count == data.count
      lastAttempt == data.lastAttempt
  IN  IF count >= RATE_LIMIT_CONFIG.MAX_LOGIN_ATTEMPTS /\ lastAttempt # Null
      THEN LET cooldownEndTime ==
                 Val(lastAttempt)
                   + (RATE_LIMIT_CONFIG.LOGIN_COOLDOWN_MINUTES * 60 * 1000)
           IN  IF now < cooldownEndTime
               THEN LET waitTime == MathCeilDiv(cooldownEndTime - now, 1000 * 60)
                    IN  Outcome(storage, FALSE,
                          [isLimited |-> TRUE,
                           waitTime |-> waitTime,
                           message |-> <<"Too many login attempts. Please wait ",
                                         waitTime,
                                         " minutes before trying again.">>])
               ELSE IF f.remove
                    THEN Outcome([storage EXCEPT
                                    ![RATE_LIMIT_KEYS.LOGIN_ATTEMPTS] = Null],
                                 FALSE, NotLimited)
                    ELSE Outcome(storage, TRUE, StorageError)
      ELSE Outcome(storage, FALSE, NotLimited)

\* Mutant: a refused check starts the cooldown again.
checkRegisterRateLimitExtends(storage, now, f) ==
  LET data == getAttemptData(storage, RATE_LIMIT_KEYS.REGISTER_ATTEMPTS, f.read)
      cooldownEndTime ==
        Val(data.lastAttempt)
          + (RATE_LIMIT_CONFIG.REGISTER_COOLDOWN_MINUTES * 60 * 1000)
      waitTime == MathCeilDiv(cooldownEndTime - now, 1000 * 60)
  IN  IF data.count >= RATE_LIMIT_CONFIG.MAX_REGISTER_ATTEMPTS /\ data.lastAttempt # Null
      THEN IF now < cooldownEndTime
           THEN Outcome(storeAttemptData(storage, RATE_LIMIT_KEYS.REGISTER_ATTEMPTS,
                                         data.count, now, f.write),
                        FALSE,
                        [isLimited |-> TRUE,
                         waitTime |-> waitTime,
                         message |-> <<"Too many registration attempts. Please wait ",
                                       waitTime,
                                       " minutes before trying again.">>])
           ELSE Outcome([storage EXCEPT ![RATE_LIMIT_KEYS.REGISTER_ATTEMPTS] = Null],
                        FALSE, NotLimited)
      ELSE Outcome(storage, FALSE, NotLimited)

\* Mutant: the registration check compares with the login maximum.
checkRegisterRateLimitLoginMax(storage, now, f) ==
  LET data == getAttemptData(storage, RATE_LIMIT_KEYS.REGISTER_ATTEMPTS, f.read)
      cooldownEndTime ==
        Val(data.lastAttempt)
          + (RATE_LIMIT_CONFIG.REGISTER_COOLDOWN_MINUTES * 60 * 1000)
      waitTime == MathCeilDiv(cooldownEndTime - now, 1000 * 60)
  IN  IF data.count >= RATE_LIMIT_CONFIG.MAX_LOGIN_ATTEMPTS /\ data.lastAttempt # Null
      THEN IF now < cooldownEndTime
           THEN Outcome(storage, FALSE,
                        [isLimited |-> TRUE,
                         waitTime |-> waitTime,
                         message |-> <<"Too many registration attempts. Please wait ",
                                       waitTime,
                                       " minutes before trying again.">>])
           ELSE Outcome([storage EXCEPT ![RATE_LIMIT_KEYS.REGISTER_ATTEMPTS] = Null],
                        FALSE, NotLimited)
      ELSE Outcome(storage, FALSE, NotLimited)

\* Mutant: a check that finds the caller not limited always resets the
\* record.
checkRegisterRateLimitReset(storage, now, f) ==
  LET data == getAttemptData(storage, RATE_LIMIT_KEYS.REGISTER_ATTEMPTS, f.read)
      cooldownEndTime ==
        Val(data.lastAttempt)
          + (RATE_LIMIT_CONFIG.REGISTER_COOLDOWN_MINUTES * 60 * 1000)
      waitTime == MathCeilDiv(cooldownEndTime - now, 1000 * 60)
  IN  IF /\ data.count >= RATE_LIMIT_CONFIG.MAX_REGISTER_ATTEMPTS
         /\ data.lastAttempt # Null
         /\ now < cooldownEndTime
      THEN Outcome(storage, FALSE,
                   [isLimited |-> TRUE,
                    waitTime |-> waitTime,
                    message |-> <<"Too many registration attempts. Please wait ",
                                  waitTime,
                                  " minutes before trying again.">>])
      ELSE Outcome([storage EXCEPT ![RATE_LIMIT_KEYS.REGISTER_ATTEMPTS] = Null],
                   FALSE, NotLimited)

checkRegisterRateLimit(storage, now, f) ==
  LET data == getAttemptData(storage, RATE_LIMIT_KEYS.REGISTER_ATTEMPTS, f.read)
      count == data.count
      lastAttempt == data.lastAttempt
  IN  IF count >= RATE_LIMIT_CONFIG.MAX_REGISTER_ATTEMPTS /\ lastAttempt # Null
      THEN LET cooldownEndTime ==
                 Val(lastAttempt)
                   + (RATE_LIMIT_CONFIG.REGISTER_COOLDOWN_MINUTES * 60 * 1000)
           IN  IF now < cooldownEndTime
               THEN LET waitTime == MathCeilDiv(cooldownEndTime - now, 1000 * 60)
                    IN  Outcome(storage, FALSE,
                          [isLimited |-> TRUE,
                           waitTime |-> waitTime,
                           message |-> <<"Too many registration attempts. Please wait ",
                                         waitTime,
                                         " minutes before trying again.">>])
               ELSE IF f.remove
                    THEN Outcome([storage EXCEPT
                                    ![RATE_LIMIT_KEYS.REGISTER_ATTEMPTS] = Null],
                                 FALSE, NotLimited)
                    ELSE Outcome(storage, TRUE, StorageError)
      ELSE Outcome(storage, FALSE, NotLimited)

\* recordLoginAttempt / recordRegisterAttempt resolve to undefined; the value
\* kept here is the time the caller spent suspended in delay().
Recorded(storage, threw, delayMs) ==
  [storage |-> storage, threw |-> threw, delayMs |-> delayMs]

\* Mutant: a failed write of the record is rethrown to the caller.
recordLoginAttemptRethrows(storage, now, isSuccess, f) ==
  LET count == getAttemptData(storage, RATE_LIMIT_KEYS.LOGIN_ATTEMPTS, f.read).count
      newCount == count + 1
      stored == storeAttemptData(storage, RATE_LIMIT_KEYS.LOGIN_ATTEMPTS,
                                 newCount, now, f.write)
  IN  IF isSuccess
      THEN IF f.remove
           THEN Recorded([storage EXCEPT ![RATE_LIMIT_KEYS.LOGIN_ATTEMPTS] = Null],
                         FALSE, 0)
           ELSE Recorded(storage, TRUE, 0)
      ELSE IF ~f.write THEN Recorded(storage, TRUE, 0)
      ELSE IF newCount > 1
      THEN Recorded(stored, FALSE,
                    calculateBackoffDelay(newCount,
                                          RATE_LIMIT_CONFIG.BASE_DELAY_MS,
                                          RATE_LIMIT_CONFIG.MAX_DELAY_MS))
      ELSE Recorded(stored, FALSE, 0)

\* Mutant: a failed attempt is recorded and the call returns at once.
recordLoginAttemptNoWait(storage, now, isSuccess, f) ==
  LET count == getAttemptData(storage, RATE_LIMIT_KEYS.LOGIN_ATTEMPTS, f.read).count
  IN  IF isSuccess
      THEN Recorded([storage EXCEPT ![RATE_LIMIT_KEYS.LOGIN_ATTEMPTS] = Null],
                    FALSE, 0)
      ELSE Recorded(storeAttemptData(storage, RATE_LIMIT_KEYS.LOGIN_ATTEMPTS,
                                     count + 1, now, f.write),
                    FALSE, 0)

\* Mutant: a successful login leaves the record in place.
recordLoginAttemptKeeps(storage, now, isSuccess, f) ==
  LET count == getAttemptData(storage, RATE_LIMIT_KEYS.LOGIN_ATTEMPTS, f.read).count
      newCount == count + 1
      stored == storeAttemptData(storage, RATE_LIMIT_KEYS.LOGIN_ATTEMPTS,
                                 newCount, now, f.write)
  IN  IF isSuccess THEN Recorded(storage, FALSE, 0)
      ELSE IF newCount > 1
      THEN Recorded(stored, FALSE,
                    calculateBackoffDelay(newCount,
                                          RATE_LIMIT_CONFIG.BASE_DELAY_MS,
                                          RATE_LIMIT_CONFIG.MAX_DELAY_MS))
      ELSE Recorded(stored, FALSE, 0)

recordLoginAttempt(storage, now, isSuccess, f) ==
  LET count == getAttemptData(storage, RATE_LIMIT_KEYS.LOGIN_ATTEMPTS, f.read).count
  IN  IF isSuccess
      THEN IF f.remove
           THEN Recorded([storage EXCEPT ![RATE_LIMIT_KEYS.LOGIN_ATTEMPTS] = Null],
                         FALSE, 0)
           ELSE Recorded(storage, TRUE, 0)
      ELSE LET newCount == count + 1
               stored == storeAttemptData(storage, RATE_LIMIT_KEYS.LOGIN_ATTEMPTS,
                                          newCount, now, f.write)
           IN  IF newCount > 1
               THEN Recorded(stored, FALSE,
                             calculateBackoffDelay(newCount,
                                                   RATE_LIMIT_CONFIG.BASE_DELAY_MS,
                                                   RATE_LIMIT_CONFIG.MAX_DELAY_MS))
               ELSE Recorded(stored, FALSE, 0)

\* Mutant: the first failure is delayed too (newCount >= 1).
recordRegisterAttemptAlwaysDelays(storage, now, isSuccess, f) ==
  LET count == getAttemptData(storage, RATE_LIMIT_KEYS.REGISTER_ATTEMPTS, f.read).count
      newCount == count + 1
      stored == storeAttemptData(storage, RATE_LIMIT_KEYS.REGISTER_ATTEMPTS,
                                 newCount, now, f.write)
  IN  IF isSuccess
      THEN Recorded([storage EXCEPT ![RATE_LIMIT_KEYS.REGISTER_ATTEMPTS] = Null],
                    FALSE, 0)
      ELSE Recorded(stored, FALSE,
                    calculateBackoffDelay(newCount,
                                          RATE_LIMIT_CONFIG.BASE_DELAY_MS,
                                          RATE_LIMIT_CONFIG.MAX_DELAY_MS))

recordRegisterAttempt(storage, now, isSuccess, f) ==
  LET count == getAttemptData(storage, RATE_LIMIT_KEYS.REGISTER_ATTEMPTS, f.read).count
  IN  IF isSuccess
      THEN IF f.remove
           THEN Recorded([storage EXCEPT ![RATE_LIMIT_KEYS.REGISTER_ATTEMPTS] = Null],
                         FALSE, 0)
           ELSE Recorded(storage, TRUE, 0)
      ELSE LET newCount == count + 1
               stored == storeAttemptData(storage, RATE_LIMIT_KEYS.REGISTER_ATTEMPTS,
                                          newCount, now, f.write)
           IN  IF newCount > 1
               THEN Recorded(stored, FALSE,
                             calculateBackoffDelay(newCount,
                                                   RATE_LIMIT_CONFIG.BASE_DELAY_MS,
                                                   RATE_LIMIT_CONFIG.MAX_DELAY_MS))
               ELSE Recorded(stored, FALSE, 0)

\* clearRateLimitData: Promise.all of the two removals, any failure caught.
\* g says which of the two removals succeed.
clearRateLimitData(storage, g) ==
  [k \in AttemptKeys |->
     IF (k = RATE_LIMIT_KEYS.LOGIN_ATTEMPTS /\ g.login)
       \/ (k = RATE_LIMIT_KEYS.REGISTER_ATTEMPTS /\ g.register)
     THEN Null ELSE storage[k]]

\* ---------------------------------------------------------- utils/storage.js
STORAGE_KEYS ==
  [ACCESS_TOKEN |-> "auth_access_token",
   REFRESH_TOKEN |-> "auth_refresh_token",
   USER_DATA |-> "auth_user_data",
   LAST_LOGIN |-> "auth_last_login"]

CredentialKeys ==
  {STORAGE_KEYS.ACCESS_TOKEN, STORAGE_KEYS.REFRESH_TOKEN,
   STORAGE_KEYS.USER_DATA, STORAGE_KEYS.LAST_LOGIN}

\* JSON.stringify / JSON.parse of a plain object with no undefined fields.
JSONstringify(obj) == [json |-> obj]
JSONparse(text) == text.json

\* What a credential-store function did: the backend contents it leaves
\* (SecureStore on mobile, AsyncStorage on web: one key-value map either
\* way), whether it rejected, the value it resolved to, and the keys whose
\* setItem call succeeded.
Stored(secure, threw, value, wrote) ==
  [secure |-> secure, threw |-> threw, value |-> value, wrote |-> wrote]

\* setSecureItem: a backend failure is logged and rethrown.
setSecureItem(secure, key, value, ok) ==
  IF ok THEN Stored([secure EXCEPT ![key] = Some(value)], FALSE, Null, {key})
        ELSE Stored(secure, TRUE, StorageError, {})

\* Mutant: a failed read answers with the stored value all the same.
getSecureItemIgnoresFailure(secure, key, ok) == secure[key]

\* getSecureItem: a backend failure is logged and read as null.
getSecureItem(secure, key, ok) ==
  IF ok THEN secure[key] ELSE Null

\* Mutant: a failed removal is logged and swallowed.
removeSecureItemSwallows(secure, key, ok) ==
  IF ok THEN Stored([secure EXCEPT ![key] = Null], FALSE, Null, {})
        ELSE Stored(secure, FALSE, Null, {})

\* removeSecureItem: a backend failure is logged and rethrown.
removeSecureItem(secure, key, ok) ==
  IF ok THEN Stored([secure EXCEPT ![key] = Null], FALSE, Null, {})
        ELSE Stored(secure, TRUE, StorageError, {})

\* Mutant: the two tokens are written under each other's key.
storeTokensSwapped(secure, accessToken, refreshToken, now, w) ==
  LET s1 == setSecureItem(secure, STORAGE_KEYS.ACCESS_TOKEN, refreshToken, w.access)
      s2 == setSecureItem(s1.secure, STORAGE_KEYS.REFRESH_TOKEN, accessToken, w.refresh)
      s3 == setSecureItem(s2.secure, STORAGE_KEYS.LAST_LOGIN, toISOString(now), w.lastLogin)
      wrote == s1.wrote \cup s2.wrote \cup s3.wrote
  IN  IF s1.threw \/ s2.threw \/ s3.threw
      THEN Stored(s3.secure, TRUE, StorageError, wrote)
      ELSE Stored(s3.secure, FALSE, Null, wrote)

\* Mutant: when a write fails the store is put back as it was.
storeTokensRollsBack(secure, accessToken, refreshToken, now, w) ==
  LET s1 == setSecureItem(secure, STORAGE_KEYS.ACCESS_TOKEN, accessToken, w.access)
      s2 == setSecureItem(s1.secure, STORAGE_KEYS.REFRESH_TOKEN, refreshToken, w.refresh)
      s3 == setSecureItem(s2.secure, STORAGE_KEYS.LAST_LOGIN, toISOString(now), w.lastLogin)
      wrote == s1.wrote \cup s2.wrote \cup s3.wrote
  IN  IF s1.threw \/ s2.threw \/ s3.threw
      THEN Stored(secure, TRUE, StorageError, {})
      ELSE Stored(s3.secure, FALSE, Null, wrote)

\* storeTokens: the three writes run under Promise.all; w says which of them
\* succeed.  They touch different keys, so their order does not matter.
storeTokens(secure, accessToken, refreshToken, now, w) ==
  LET s1 == setSecureItem(secure, STORAGE_KEYS.ACCESS_TOKEN, accessToken, w.access)
      s2 == setSecureItem(s1.secure, STORAGE_KEYS.REFRESH_TOKEN, refreshToken, w.refresh)
      s3 == setSecureItem(s2.secure, STORAGE_KEYS.LAST_LOGIN, toISOString(now), w.lastLogin)
      wrote == s1.wrote \cup s2.wrote \cup s3.wrote
  IN  IF s1.threw \/ s2.threw \/ s3.threw
      THEN Stored(s3.secure, TRUE, StorageError, wrote)
      ELSE Stored(s3.secure, FALSE, Null, wrote)

\* Mutant: the two keys are read the wrong way round.
getTokensSwapped(secure, r) ==
  [accessToken |-> getSecureItem(secure, STORAGE_KEYS.REFRESH_TOKEN, r.access),
   refreshToken |-> getSecureItem(secure, STORAGE_KEYS.ACCESS_TOKEN, r.refresh)]

\* getTokens: r says which of the two reads succeed.
getTokens(secure, r) ==
  [accessToken |-> getSecureItem(secure, STORAGE_KEYS.ACCESS_TOKEN, r.access),
   refreshToken |-> getSecureItem(secure, STORAGE_KEYS.REFRESH_TOKEN, r.refresh)]

\* Mutant: the profile is never written, and the call reports success.
storeUserDataDropped(secure, userData, ok) == Stored(secure, FALSE, Null, {})

storeUserData(secure, userData, ok) ==
  setSecureItem(secure, STORAGE_KEYS.USER_DATA, JSONstringify(userData), ok)

getUserData(secure, ok) ==
  LET userData == getSecureItem(secure, STORAGE_KEYS.USER_DATA, ok)
  IN  IF userData # Null THEN Some(JSONparse(Val(userData))) ELSE Null

\* Mutant: the removals are awaited one after the other, and the first
\* failure ends the call.
clearAuthDataSequential(secure, d) ==
  LET s1 == removeSecureItem(secure, STORAGE_KEYS.ACCESS_TOKEN, d.access)
      s2 == removeSecureItem(s1.secure, STORAGE_KEYS.REFRESH_TOKEN, d.refresh)
      s3 == removeSecureItem(s2.secure, STORAGE_KEYS.USER_DATA, d.userData)
      s4 == removeSecureItem(s3.secure, STORAGE_KEYS.LAST_LOGIN, d.lastLogin)
  IN  IF s1.threw THEN Stored(s1.secure, TRUE, StorageError, {})
      ELSE IF s2.threw THEN Stored(s2.secure, TRUE, StorageError, {})
      ELSE IF s3.threw THEN Stored(s3.secure, TRUE, StorageError, {})
      ELSE IF s4.threw THEN Stored(s4.secure, TRUE, StorageError, {})
      ELSE Stored(s4.secure, FALSE, Null, {})

\* Mutant: the last-login key is left out of the removals.
clearAuthDataKeepsLastLogin(secure, d) ==
  LET s1 == removeSecureItem(secure, STORAGE_KEYS.ACCESS_TOKEN, d.access)
      s2 == removeSecureItem(s1.secure, STORAGE_KEYS.REFRESH_TOKEN, d.refresh)
      s3 == removeSecureItem(s2.secure, STORAGE_KEYS.USER_DATA, d.userData)
  IN  IF s1.threw \/ s2.threw \/ s3.threw
      THEN Stored(s3.secure, TRUE, StorageError, {})
      ELSE Stored(s3.secure, FALSE, Null, {})

\* clearAuthData: the four removals run under Promise.all; d says which of
\* them succeed.
clearAuthData(secure, d) ==
  LET s1 == removeSecureItem(secure, STORAGE_KEYS.ACCESS_TOKEN, d.access)
      s2 == removeSecureItem(s1.secure, STORAGE_KEYS.REFRESH_TOKEN, d.refresh)
      s3 == removeSecureItem(s2.secure, STORAGE_KEYS.USER_DATA, d.userData)
      s4 == removeSecureItem(s3.secure, STORAGE_KEYS.LAST_LOGIN, d.lastLogin)
  IN  IF s1.threw \/ s2.threw \/ s3.threw \/ s4.threw
      THEN Stored(s4.secure, TRUE, StorageError, {})
      ELSE Stored(s4.secure, FALSE, Null, {})

getLastLogin(secure, ok) ==
  LET lastLogin == getSecureItem(secure, STORAGE_KEYS.LAST_LOGIN, ok)
  IN  IF lastLogin # Null THEN Some(DateFromISO(Val(lastLogin))) ELSE Null

\* ------------------------------------------------------- auth/authActions.js
\* x || d for a nullable string x
OrElse(x, d) == IF x = Null \/ x = Some("") THEN d ELSE Val(x)

\* String.prototype.trim on the display names the model enters
Trim(str) == IF str = " Bo " THEN "Bo" ELSE str

\* The state the auth actions work on: the attempt records in AsyncStorage,
\* the credential backend, and the identity provider's auth.currentUser.
World(storage, secure, currentUser) ==
  [storage |-> storage, secure |-> secure, currentUser |-> currentUser]

\* What an auth action did: the world it leaves, the descriptor it resolved
\* to, the time it spent in the backoff delay, the collaborator calls it
\* made, in order, whether the rate-limit check answered isLimited, and the
\* credential keys it wrote.
Done(world, value, delayMs, calls, limited, wrote) ==
  [world |-> world, threw |-> FALSE, value |-> value, delayMs |-> delayMs,
   calls |-> calls, limited |-> limited, wrote |-> wrote]

Success(user) == [success |-> TRUE, user |-> Some(user), error |-> Null]
Failure(message) == [success |-> FALSE, user |-> Null, error |-> Some(message)]

\* The switch on error.code in loginUser's catch block.
LoginErrorMessage(error) ==
  CASE error.code = "auth/invalid-email" -> <<"Please enter a valid email address.">>
    [] error.code = "auth/user-disabled" -> <<"This account has been disabled.">>
    [] error.code = "auth/user-not-found" -> <<"No account found with this email address.">>
    [] error.code \in {"auth/wrong-password", "auth/invalid-credential"} ->
         <<"Invalid email or password.">>
    [] error.code = "auth/too-many-requests" ->
         <<"Too many failed attempts. Please try again later.">>
    [] error.code = "auth/network-request-failed" ->
         <<"Network error. Please check your connection.">>
    [] OTHER -> IF error.message # <<>> THEN error.message
                ELSE <<"Login failed. Please try again.">>

\* The switch on error.code in registerUser's catch block.
RegisterErrorMessage(error) ==
  CASE error.code = "auth/email-already-in-use" ->
         <<"An account with this email already exists.">>
    [] error.code = "auth/invalid-email" -> <<"Please enter a valid email address.">>
    [] error.code = "auth/operation-not-allowed" ->
         <<"Email/password accounts are not enabled.">>
    [] error.code = "auth/weak-password" ->
         <<"Password should be at least 6 characters long.">>
    [] error.code = "auth/network-request-failed" ->
         <<"Network error. Please check your connection.">>
    [] OTHER -> IF error.message # <<>> THEN error.message
                ELSE <<"Registration failed. Please try again.">>

\* Mutant: the answer of the rate-limit check is ignored.
isLimitedIgnored(rateLimitCheck) == FALSE

\* if (rateLimitCheck.isLimited), in loginUser and in registerUser
isLimited(rateLimitCheck) == rateLimitCheck.value.isLimited

\* loginUser's catch block: record the failed attempt (with its backoff
\* delay), then translate the error.
LoginCatch(world, now, error, f, calls, limited, wrote) ==
  LET rec == recordLoginAttempt(world.storage, now, FALSE, f)
      done == Done([world EXCEPT !.storage = rec.storage],
                   Failure(LoginErrorMessage(error)), rec.delayMs,
                   Append(calls, "recordLoginAttempt"), limited, wrote)
  IN  \* nothing guards the await inside the catch block
      IF rec.threw THEN [done EXCEPT !.threw = TRUE, !.value = StorageError]
      ELSE done

\* in: what the collaborators do during this call
\*   fCheck, fRecord, fCatch : which AsyncStorage calls succeed, in the
\*                     rate-limit check, in recordLoginAttempt(true) and in
\*                     the catch block's recordLoginAttempt(false)
\*   signIn, idToken : the provider's answers, [ok, value, error]
\*   w, u            : which credential writes succeed
loginUser(world, now, in) ==
  LET rateLimitCheck == checkLoginRateLimit(world.storage, now, in.fCheck)
      w0 == [world EXCEPT !.storage = rateLimitCheck.storage]
      c0 == <<"checkLoginRateLimit">>
      lim == ~rateLimitCheck.threw /\ rateLimitCheck.value.isLimited
  IN
  IF rateLimitCheck.threw
    THEN LoginCatch(w0, now, rateLimitCheck.value, in.fCatch, c0, lim, {})
  ELSE IF isLimited(rateLimitCheck)
    THEN Done(w0, Failure(rateLimitCheck.value.message), 0, c0, lim, {})
  ELSE
  LET c1 == Append(c0, "signInWithEmailAndPassword")
  IN
  IF ~in.signIn.ok
    THEN LoginCatch(w0, now, in.signIn.error, in.fCatch, c1, lim, {})
  ELSE
  LET user == in.signIn.value
      w1 == [w0 EXCEPT !.currentUser = Some(user)]
      c2 == Append(c1, "getIdToken")
  IN
  IF ~in.idToken.ok
    THEN LoginCatch(w1, now, in.idToken.error, in.fCatch, c2, lim, {})
  ELSE
  LET idToken == in.idToken.value
      userData == [uid |-> user.uid,
                   email |-> user.email,
                   displayName |-> OrElse(user.displayName, ""),
                   emailVerified |-> user.emailVerified,
                   photoURL |-> user.photoURL,
                   lastLoginAt |-> toISOString(now)]
      st == storeTokens(w1.secure, idToken, OrElse(user.refreshToken, ""), now, in.w)
      w2 == [w1 EXCEPT !.secure = st.secure]
      c3 == Append(c2, "storeTokens")
  IN
  IF st.threw
    THEN LoginCatch(w2, now, st.value, in.fCatch, c3, lim, st.wrote)
  ELSE
  LET su == storeUserData(w2.secure, userData, in.u)
      w3 == [w2 EXCEPT !.secure = su.secure]
      c4 == Append(c3, "storeUserData")
      wrote == st.wrote \cup su.wrote
  IN
  IF su.threw
    THEN LoginCatch(w3, now, su.value, in.fCatch, c4, lim, wrote)
  ELSE
  LET rec == recordLoginAttempt(w3.storage, now, TRUE, in.fRecord)
      w4 == [w3 EXCEPT !.storage = rec.storage]
      c5 == Append(c4, "recordLoginAttempt")
  IN
  IF rec.threw
    THEN LoginCatch(w4, now, StorageError, in.fCatch, c5, lim, wrote)
    ELSE Done(w4, Success(userData), 0, c5, lim, wrote)

\* registerUser's catch block.
RegisterCatch(world, now, error, f, calls, limited, wrote) ==
  LET rec == recordRegisterAttempt(world.storage, now, FALSE, f)
      done == Done([world EXCEPT !.storage = rec.storage],
                   Failure(RegisterErrorMessage(error)), rec.delayMs,
                   Append(calls, "recordRegisterAttempt"), limited, wrote)
  IN  \* nothing guards the await inside the catch block
      IF rec.threw THEN [done EXCEPT !.threw = TRUE, !.value = StorageError]
      ELSE done

\* in: as for loginUser, with createAccount for signIn, and updateProfile,
\* the provider's answer to the display-name update.
registerUser(world, now, displayName, in) ==
  LET rateLimitCheck == checkRegisterRateLimit(world.storage, now, in.fCheck)
      w0 == [world EXCEPT !.storage = rateLimitCheck.storage]
      c0 == <<"checkRegisterRateLimit">>
      lim == ~rateLimitCheck.threw /\ rateLimitCheck.value.isLimited
  IN
  IF rateLimitCheck.threw
    THEN RegisterCatch(w0, now, rateLimitCheck.value, in.fCatch, c0, lim, {})
  ELSE IF isLimited(rateLimitCheck)
    THEN Done(w0, Failure(rateLimitCheck.value.message), 0, c0, lim, {})
  ELSE
  LET c1 == Append(c0, "createUserWithEmailAndPassword")
  IN
  IF ~in.createAccount.ok
    THEN RegisterCatch(w0, now, in.createAccount.error, in.fCatch, c1, lim, {})
  ELSE
  LET created == in.createAccount.value
      w1 == [w0 EXCEPT !.currentUser = Some(created)]
      c2 == IF Trim(displayName) # "" THEN Append(c1, "updateProfile") ELSE c1
  IN
  IF Trim(displayName) # "" /\ ~in.updateProfile.ok
    THEN RegisterCatch(w1, now, in.updateProfile.error, in.fCatch, c2, lim, {})
  ELSE
  LET user == IF Trim(displayName) # ""
              THEN [created EXCEPT !.displayName = Some(Trim(displayName))]
              ELSE created
      w2 == [w1 EXCEPT !.currentUser = Some(user)]
      c3 == Append(c2, "getIdToken")
  IN
  IF ~in.idToken.ok
    THEN RegisterCatch(w2, now, in.idToken.error, in.fCatch, c3, lim, {})
  ELSE
  LET idToken == in.idToken.value
      userData == [uid |-> user.uid,
                   email |-> user.email,
                   displayName |->
                     OrElse(user.displayName, OrElse(Some(Trim(displayName)), "")),
                   emailVerified |-> user.emailVerified,
                   photoURL |-> user.photoURL,
                   createdAt |-> toISOString(now)]
      st == storeTokens(w2.secure, idToken, OrElse(user.refreshToken, ""), now, in.w)
      w3 == [w2 EXCEPT !.secure = st.secure]
      c4 == Append(c3, "storeTokens")
  IN
  IF st.threw
    THEN RegisterCatch(w3, now, st.value, in.fCatch, c4, lim, st.wrote)
  ELSE
  LET su == storeUserData(w3.secure, userData, in.u)
      w4 == [w3 EXCEPT !.secure = su.secure]
      c5 == Append(c4, "storeUserData")
      wrote == st.wrote \cup su.wrote
  IN
  IF su.threw
    THEN RegisterCatch(w4, now, su.value, in.fCatch, c5, lim, wrote)
  ELSE
  LET rec == recordRegisterAttempt(w4.storage, now, TRUE, in.fRecord)
      w5 == [w4 EXCEPT !.storage = rec.storage]
      c6 == Append(c5, "recordRegisterAttempt")
  IN
  IF rec.threw
    THEN RegisterCatch(w5, now, StorageError, in.fCatch, c6, lim, wrote)
    ELSE Done(w5, Success(userData), 0, c6, lim, wrote)

\* logoutUser: signOut, then clearAuthData; any failure gives the fixed
\* failure descriptor.  in.signOut is the provider's answer, in.d says which
\* removals succeed.
logoutUser(world, in) ==
  IF ~in.signOut.ok
    THEN Done(world, Failure(<<"Failed to logout. Please try again.">>), 0,
              <<"signOut">>, FALSE, {})
  ELSE
  LET w1 == [world EXCEPT !.currentUser = Null]
      cl == clearAuthData(w1.secure, in.d)
      w2 == [w1 EXCEPT !.secure = cl.secure]
  IN  IF cl.threw
      THEN Done(w2, Failure(<<"Failed to logout. Please try again.">>), 0,
                <<"signOut", "clearAuthData">>, FALSE, {})
      ELSE Done(w2, [success |-> TRUE, user |-> Null, error |-> Null], 0,
                <<"signOut", "clearAuthData">>, FALSE, {})

\* refreshAuthToken resolves to {success, token} or {success, error}.
Refreshed(world, success, token, error, calls, wrote) ==
  [world |-> world, threw |-> FALSE,
   value |-> [success |-> success, token |-> token, error |-> error],
   delayMs |-> 0, calls |-> calls, limited |-> FALSE, wrote |-> wrote]

refreshAuthToken(world, now, in) ==
  LET user == world.currentUser
  IN
  IF user = Null
    THEN Refreshed(world, FALSE, Null, Some(<<"No authenticated user found.">>),
                   <<>>, {})
  ELSE IF ~in.idToken.ok
    THEN Refreshed(world, FALSE, Null,
                   Some(<<"Failed to refresh authentication token.">>),
                   <<"getIdToken">>, {})
  ELSE
  LET idToken == in.idToken.value
      st == storeTokens(world.secure, idToken,
                        OrElse(Val(user).refreshToken, ""), now, in.w)
      w1 == [world EXCEPT !.secure = st.secure]
  IN  IF st.threw
      THEN Refreshed(w1, FALSE, Null,
                     Some(<<"Failed to refresh authentication token.">>),
                     <<"getIdToken", "storeTokens">>, st.wrote)
      ELSE Refreshed(w1, TRUE, Some(idToken), Null,
                     <<"getIdToken", "storeTokens">>, st.wrote)

\* The switch on error.code in sendPasswordReset's catch block.
ResetErrorMessage(error) ==
  CASE error.code = "auth/invalid-email" -> <<"Please enter a valid email address.">>
    [] error.code = "auth/user-not-found" ->
         <<"No account found with this email address.">>
    [] error.code = "auth/network-request-failed" ->
         <<"Network error. Please check your connection.">>
    [] OTHER -> IF error.message # <<>> THEN error.message
                ELSE <<"Failed to send password reset email.">>

\* sendPasswordReset: in.reset is the provider's answer.
sendPasswordReset(world, in) ==
  IF in.reset.ok
    THEN Done(world, [success |-> TRUE, user |-> Null, error |-> Null], 0,
              <<"sendPasswordResetEmail">>, FALSE, {})
    ELSE Done(world, Failure(ResetErrorMessage(in.reset.error)), 0,
              <<"sendPasswordResetEmail">>, FALSE, {})

\* getCurrentUser reads auth.currentUser and nothing else.
getCurrentUser(world) ==
  LET user == world.currentUser
  IN  IF user = Null
      THEN Done(world, Failure(<<"No authenticated user found.">>), 0, <<>>,
                FALSE, {})
      ELSE Done(world,
                Success([uid |-> Val(user).uid,
                         email |-> Val(user).email,
                         displayName |-> OrElse(Val(user).displayName, ""),
                         emailVerified |-> Val(user).emailVerified,
                         photoURL |-> Val(user).photoURL]),
                0, <<>>, FALSE, {})

\* ------------------------------------------------------ auth/AuthProvider.js
initialState ==
  [isAuthenticated |-> FALSE, user |-> Null, isLoading |-> TRUE, error |-> Null]

AUTH_ACTIONS ==
  [AUTH_STATE_CHANGED |-> "AUTH_STATE_CHANGED",
   LOGIN_START |-> "LOGIN_START",
   LOGIN_SUCCESS |-> "LOGIN_SUCCESS",
   LOGIN_FAILURE |-> "LOGIN_FAILURE",
   REGISTER_START |-> "REGISTER_START",
   REGISTER_SUCCESS |-> "REGISTER_SUCCESS",
   REGISTER_FAILURE |-> "REGISTER_FAILURE",
   LOGOUT_START |-> "LOGOUT_START",
   LOGOUT_SUCCESS |-> "LOGOUT_SUCCESS",
   LOGOUT_FAILURE |-> "LOGOUT_FAILURE",
   CLEAR_ERROR |-> "CLEAR_ERROR",
   SET_LOADING |-> "SET_LOADING"]

\* A dispatched action; payload is a record, empty (<<>>) when there is none.
Dispatch(type, payload) == [type |-> type, payload |-> payload]

\* As authReducer, but a failure's message is not kept.
authReducerDropsError(state, action) ==
  CASE action.type \in {AUTH_ACTIONS.LOGIN_START, AUTH_ACTIONS.REGISTER_START} ->
         [state EXCEPT !.isLoading = TRUE, !.error = Null]
    [] action.type \in {AUTH_ACTIONS.LOGIN_SUCCESS, AUTH_ACTIONS.REGISTER_SUCCESS} ->
         [state EXCEPT !.isAuthenticated = TRUE,
                       !.user = action.payload.user,
                       !.isLoading = FALSE,
                       !.error = Null]
    [] action.type \in {AUTH_ACTIONS.LOGIN_FAILURE, AUTH_ACTIONS.REGISTER_FAILURE} ->
         [state EXCEPT !.isAuthenticated = FALSE,
                       !.user = Null,
                       !.isLoading = FALSE,
                       !.error = Null]
    [] OTHER -> state

\* Mutant: a failed login or registration leaves the signed-in flag and the
\* user as they were.
authReducerFailureKeepsUser(state, action) ==
  CASE action.type = AUTH_ACTIONS.AUTH_STATE_CHANGED ->
         [state EXCEPT !.isAuthenticated = action.payload.isAuthenticated,
                       !.user = action.payload.user,
                       !.isLoading = FALSE,
                       !.error = Null]
    [] action.type \in {AUTH_ACTIONS.LOGIN_START, AUTH_ACTIONS.REGISTER_START} ->
         [state EXCEPT !.isLoading = TRUE, !.error = Null]
    [] action.type \in {AUTH_ACTIONS.LOGIN_SUCCESS, AUTH_ACTIONS.REGISTER_SUCCESS} ->
         [state EXCEPT !.isAuthenticated = TRUE,
                       !.user = action.payload.user,
                       !.isLoading = FALSE,
                       !.error = Null]
    [] action.type \in {AUTH_ACTIONS.LOGIN_FAILURE, AUTH_ACTIONS.REGISTER_FAILURE} ->
         [state EXCEPT !.isLoading = FALSE,
                       !.error = action.payload.error]
    [] action.type = AUTH_ACTIONS.LOGOUT_START ->
         [state EXCEPT !.isLoading = TRUE, !.error = Null]
    [] action.type = AUTH_ACTIONS.LOGOUT_SUCCESS ->
         [state EXCEPT !.isAuthenticated = FALSE,
                       !.user = Null,
                       !.isLoading = FALSE,
                       !.error = Null]
    [] action.type = AUTH_ACTIONS.LOGOUT_FAILURE ->
         [state EXCEPT !.isLoading = FALSE, !.error = action.payload.error]
    [] action.type = AUTH_ACTIONS.CLEAR_ERROR ->
         [state EXCEPT !.error = Null]
    [] action.type = AUTH_ACTIONS.SET_LOADING ->
         [state EXCEPT !.isLoading = action.payload.isLoading]
    [] OTHER -> state

authReducer(state, action) ==
  CASE action.type = AUTH_ACTIONS.AUTH_STATE_CHANGED ->
         [state EXCEPT !.isAuthenticated = action.payload.isAuthenticated,
                       !.user = action.payload.user,
                       !.isLoading = FALSE,
                       !.error = Null]
    [] action.type \in {AUTH_ACTIONS.LOGIN_START, AUTH_ACTIONS.REGISTER_START} ->
         [state EXCEPT !.isLoading = TRUE, !.error = Null]
    [] action.type \in {AUTH_ACTIONS.LOGIN_SUCCESS, AUTH_ACTIONS.REGISTER_SUCCESS} ->
         [state EXCEPT !.isAuthenticated = TRUE,
                       !.user = action.payload.user,
                       !.isLoading = FALSE,
                       !.error = Null]
    [] action.type \in {AUTH_ACTIONS.LOGIN_FAILURE, AUTH_ACTIONS.REGISTER_FAILURE} ->
         [state EXCEPT !.isAuthenticated = FALSE,
                       !.user = Null,
                       !.isLoading = FALSE,
                       !.error = action.payload.error]
    [] action.type = AUTH_ACTIONS.LOGOUT_START ->
         [state EXCEPT !.isLoading = TRUE, !.error = Null]
    [] action.type = AUTH_ACTIONS.LOGOUT_SUCCESS ->
         [state EXCEPT !.isAuthenticated = FALSE,
                       !.user = Null,
                       !.isLoading = FALSE,
                       !.error = Null]
    [] action.type = AUTH_ACTIONS.LOGOUT_FAILURE ->
         [state EXCEPT !.isLoading = FALSE, !.error = action.payload.error]
    [] action.type = AUTH_ACTIONS.CLEAR_ERROR ->
         [state EXCEPT !.error = Null]
    [] action.type = AUTH_ACTIONS.SET_LOADING ->
         [state EXCEPT !.isLoading = action.payload.isLoading]
    [] OTHER -> state

\* ------------------------------------------------------------ auth/useAuth.js
NotConfigured ==
  <<"Firebase is not configured. Please add your Firebase credentials to the .env file.">>

\* What a hook function did: what the auth action underneath did (o), the
\* reducer state it leaves, and the descriptor it resolved to.
Hooked(o, state, value) == [o EXCEPT !.threw = FALSE, !.value = value] @@ [state |-> state]

\* The second half of useAuth's login and register: dispatch on the result
\* of the auth action, or on its rejection.
HookResult(o, started, success, failure, unexpected) ==
  IF o.threw
    THEN Hooked(o, authReducer(started, Dispatch(failure, [error |-> Some(unexpected)])),
                [success |-> FALSE, error |-> Some(unexpected)])
  ELSE IF o.value.success
    THEN Hooked(o, authReducer(started, Dispatch(success, [user |-> o.value.user])),
                [success |-> TRUE, error |-> Null])
    ELSE Hooked(o, authReducer(started, Dispatch(failure, [error |-> o.value.error])),
                [success |-> FALSE, error |-> o.value.error])

\* useAuth().login
login(world, state, configured, now, in) ==
  IF ~configured
    THEN Hooked(Done(world, Null, 0, <<>>, FALSE, {}), state,
                [success |-> FALSE, error |-> Some(NotConfigured)])
    ELSE HookResult(loginUser(world, now, in),
                    authReducer(state, Dispatch(AUTH_ACTIONS.LOGIN_START, <<>>)),
                    AUTH_ACTIONS.LOGIN_SUCCESS, AUTH_ACTIONS.LOGIN_FAILURE,
                    <<"An unexpected error occurred during login.">>)

\* useAuth().register
register(world, state, configured, now, displayName, in) ==
  IF ~configured
    THEN Hooked(Done(world, Null, 0, <<>>, FALSE, {}), state,
                [success |-> FALSE, error |-> Some(NotConfigured)])
    ELSE HookResult(registerUser(world, now, displayName, in),
                    authReducer(state, Dispatch(AUTH_ACTIONS.REGISTER_START, <<>>)),
                    AUTH_ACTIONS.REGISTER_SUCCESS, AUTH_ACTIONS.REGISTER_FAILURE,
                    <<"An unexpected error occurred during registration.">>)

\* ------------------------------------------------------------ the state
VARIABLES
  asyncStorage,   \* AsyncStorage: the two attempt records
  secureStore,    \* the credential backend: tokens, profile, last login
  currentUser,    \* the identity provider's auth.currentUser
  now,            \* wall clock, ms
  ret,            \* the last call: its name, its arguments (for a call
                  \* without arguments: which of its backend calls
                  \* succeeded), when it was made, what was stored before
                  \* it, and what it did
  streak,         \* per attempt key: the failed attempts recorded back to
                  \* back, by direct calls, since the record was absent
  budget,         \* the calls and clock steps the run may still make
  faulty,         \* whether the storage backends may fail in this run
  authState,      \* the AuthProvider's reducer state
  isFirebaseConfigured,  \* whether the build carries the provider's keys
  inflight,       \* per caller: the async call it has started and where
                  \* that call is suspended
  listener        \* the AuthProvider's auth-state listener: whether
                  \* initializeAuth has run, and the notifications whose
                  \* callback is awaiting the credential store

\* What the screens see.
ui == <<authState, isFirebaseConfigured, listener>>

vars ==
  <<asyncStorage, secureStore, currentUser, now, ret, streak, budget, faulty,
    authState, isFirebaseConfigured, inflight, listener>>

\* The callers that can have an async call in flight at the same time.
Callers == {"a", "b"}

\* A caller with nothing in flight.
Idle ==
  [fn |-> "none", pc |-> "idle", key |-> "", seen |-> 0, count |-> 0,
   at |-> 0, wakeAt |-> 0]

NoCalls == [p \in Callers |-> Idle]

\* The AuthProvider is not mounted, or its effect has not run yet.
NotListening == [started |-> FALSE, calls |-> <<>>]

Ret(op, arg, threw, value, delayMs, calls, limited, wrote) ==
  [op |-> op, arg |-> arg, at |-> now,
   before |-> [storage |-> asyncStorage, secure |-> secureStore],
   threw |-> threw, value |-> value,
   delayMs |-> delayMs, calls |-> calls, limited |-> limited, wrote |-> wrote]

\* A call of a function that only returns a value or rejects.
Plain(op, arg, threw, value) == Ret(op, arg, threw, value, 0, <<>>, FALSE, {})

\* ------------------------------------------------------------ the inputs
\* The outcomes of one backend call: TRUE is success.
Ok == IF faulty THEN BOOLEAN ELSE {TRUE}

AsyncFaults == [read : Ok, write : Ok, remove : Ok]
TokenWrites == [access : Ok, refresh : Ok, lastLogin : Ok]
TokenReads == [access : Ok, refresh : Ok]
Removals ==
  [access : Ok, refresh : Ok, userData : Ok,
   lastLogin : Ok]
RateRemovals == [login : Ok, register : Ok]

AccessTokens == {"tokA", "tokB"}
DisplayNames == {"", " Bo "}

ProviderUser(displayName, refreshToken) ==
  [uid |-> "u1", email |-> "a@x.io", displayName |-> displayName,
   emailVerified |-> FALSE, photoURL |-> Null, refreshToken |-> refreshToken]

NoError == [code |-> "", message |-> <<>>]
Answer(value) == [ok |-> TRUE, value |-> value, error |-> NoError]
Refusal(value, code, message) ==
  [ok |-> FALSE, value |-> value, error |-> [code |-> code, message |-> message]]

NetworkError(value) ==
  Refusal(value, "auth/network-request-failed",
          <<"Firebase: Error (auth/network-request-failed).">>)

SignInAnswers ==
  {Answer(ProviderUser(Some("Ann"), Some("rt1")))}
    \cup {Refusal(ProviderUser(Null, Null), "auth/wrong-password",
                  <<"Firebase: Error (auth/wrong-password).">>)}

CreateAccountAnswers ==
  {Answer(ProviderUser(Null, Null))}
    \cup {Refusal(ProviderUser(Null, Null), "auth/email-already-in-use",
                  <<"Firebase: Error (auth/email-already-in-use).">>)}

\* getIdToken issues a token other than the one stored, or fails.
FreshToken ==
  IF secureStore[STORAGE_KEYS.ACCESS_TOKEN] = Some("tokA") THEN "tokB" ELSE "tokA"

IdTokenAnswers == {Answer(FreshToken), NetworkError("tokA")}

UnitAnswers == {Answer(Null), NetworkError(Null)}

PasswordResetAnswers ==
  {Answer(Null),
   Refusal(Null, "auth/user-not-found", <<"Firebase: Error (auth/user-not-found).">>),
   Refusal(Null, "auth/internal-error", <<"Firebase: Error (auth/internal-error).">>)}

\* The backend calls a login or a registration makes: the rate-limit check's
\* read and removal, the four credential writes, the read and removal of
\* recordAttempt(true), and the read and write of the catch block's
\* recordAttempt(false).
AsyncSlots ==
  {"check.read", "check.remove", "record.read", "record.remove",
   "catch.read", "catch.write"}
SecureSlots == {"w.access", "w.refresh", "w.lastLogin", "u"}

\* The backend calls that fail during one login or registration: none; or,
\* when the backends may fail, any single one, all of AsyncStorage, all of
\* the credential backend, or all of both.
FaultPlans ==
  IF faulty
  THEN {{}} \cup {{x} : x \in AsyncSlots \cup SecureSlots}
            \cup {AsyncSlots, SecureSlots, AsyncSlots \cup SecureSlots}
  ELSE {{}}

StorageInputs(plan) ==
  [fCheck |-> [read |-> "check.read" \notin plan, write |-> TRUE,
               remove |-> "check.remove" \notin plan],
   fRecord |-> [read |-> "record.read" \notin plan, write |-> TRUE,
                remove |-> "record.remove" \notin plan],
   fCatch |-> [read |-> "catch.read" \notin plan,
               write |-> "catch.write" \notin plan, remove |-> TRUE],
   w |-> [access |-> "w.access" \notin plan, refresh |-> "w.refresh" \notin plan,
          lastLogin |-> "w.lastLogin" \notin plan],
   u |-> "u" \notin plan]

LoginInputs ==
  {[fCheck |-> st.fCheck, fRecord |-> st.fRecord, fCatch |-> st.fCatch,
    signIn |-> signIn, idToken |-> idToken, w |-> st.w, u |-> st.u] :
     st \in {StorageInputs(plan) : plan \in FaultPlans},
     signIn \in SignInAnswers, idToken \in IdTokenAnswers}

RegisterInputs ==
  {[fCheck |-> st.fCheck, fRecord |-> st.fRecord, fCatch |-> st.fCatch,
    createAccount |-> createAccount, updateProfile |-> updateProfile,
    idToken |-> idToken, w |-> st.w, u |-> st.u] :
     st \in {StorageInputs(plan) : plan \in FaultPlans},
     createAccount \in CreateAccountAnswers, updateProfile \in UnitAnswers,
     idToken \in IdTokenAnswers}

\* ------------------------------------------------------------ Init
NoAttempts == [k \in AttemptKeys |-> Null]
NoCredentials == [k \in CredentialKeys |-> Null]

\* A fresh install: nothing stored, nobody signed in.
Fresh ==
  /\ asyncStorage = NoAttempts
  /\ secureStore = NoCredentials
  /\ currentUser = Null
  /\ now = 0
  /\ streak = [k \in AttemptKeys |-> 0]
  /\ authState = initialState
  /\ isFirebaseConfigured = TRUE
  /\ inflight = NoCalls
  /\ listener = NotListening

Init ==
  /\ Fresh
  /\ ret = Plain("start", Null, FALSE, Null)
  /\ faulty = FALSE
  /\ budget = MaxSteps

InitApp ==
  /\ Fresh
  /\ ret = Plain("start", Null, FALSE, Null)
  /\ faulty = FALSE
  /\ budget = MaxAppSteps

InitSignIn ==
  /\ Fresh
  /\ ret = Plain("start", Null, FALSE, Null)
  /\ faulty = FALSE
  /\ budget = MaxSignInSteps

\* AsyncStorage may fail any call.
InitLimiterFaults ==
  /\ Fresh
  /\ ret = Plain("start", Null, FALSE, Null)
  /\ faulty = TRUE
  /\ budget = MaxLimiterFaultSteps

\* The world a first, successful login leaves behind at time 0.
SignedIn ==
  LET st == StorageInputs({})
  IN  loginUser(World(NoAttempts, NoCredentials, Null), 0,
                [fCheck |-> st.fCheck, fRecord |-> st.fRecord,
                 fCatch |-> st.fCatch,
                 signIn |-> Answer(ProviderUser(Some("Ann"), Some("rt1"))),
                 idToken |-> Answer("tokA"), w |-> st.w, u |-> st.u]).world

\* AsyncStorage and the credential backend may fail any call; the run starts
\* from a fresh install or with a user signed in.
InitAppFaults ==
  /\ \E world \in {World(NoAttempts, NoCredentials, Null), SignedIn} :
       /\ asyncStorage = world.storage
       /\ secureStore = world.secure
       /\ currentUser = world.currentUser
  /\ now = 0
  /\ streak = [k \in AttemptKeys |-> 0]
  /\ authState = initialState
  /\ isFirebaseConfigured = TRUE
  /\ inflight = NoCalls
  /\ listener = NotListening
  /\ ret = Plain("start", Null, FALSE, Null)
  /\ faulty = TRUE
  /\ budget = MaxAppFaultSteps

\* The credential backend may fail any call.
InitStoreFaults ==
  /\ Fresh
  /\ ret = Plain("start", Null, FALSE, Null)
  /\ faulty = TRUE
  /\ budget = MaxStoreFaultSteps

\* The rate limiter and the credential store on one device, signed in or
\* not, over backends that may fail any call.
InitSideBySide ==
  /\ asyncStorage = NoAttempts
  /\ secureStore \in {NoCredentials, SignedIn.secure}
  /\ currentUser = Null
  /\ now = 0
  /\ streak = [k \in AttemptKeys |-> 0]
  /\ authState = initialState
  /\ isFirebaseConfigured = TRUE
  /\ inflight = NoCalls
  /\ listener = NotListening
  /\ ret = Plain("start", Null, FALSE, Null)
  /\ faulty = TRUE
  /\ budget = MaxSideBySideSteps

\* The time n failed attempts made back to back take: each but the first is
\* followed by the backoff delay of its count.
RECURSIVE WaitedAfter(_)
WaitedAfter(n) ==
  IF n = 0 THEN 0
  ELSE WaitedAfter(n - 1)
         + (IF n > 1
              THEN calculateBackoffDelay(n, RATE_LIMIT_CONFIG.BASE_DELAY_MS,
                                         RATE_LIMIT_CONFIG.MAX_DELAY_MS)
              ELSE 0)

\* A user who has just used up the sign-in and then the sign-up attempts,
\* back to back from time 0: what the rejected loginUser and registerUser
\* calls leave in the attempt records, and the time by then.
Throttled ==
  LET logins == RATE_LIMIT_CONFIG.MAX_LOGIN_ATTEMPTS
      registrations == RATE_LIMIT_CONFIG.MAX_REGISTER_ATTEMPTS
      loginsDone == WaitedAfter(logins)
  IN  [world |->
         World([k \in AttemptKeys |->
                  IF k = RATE_LIMIT_KEYS.LOGIN_ATTEMPTS
                    THEN Some([count |-> logins,
                               lastAttempt |-> toISOString(WaitedAfter(logins - 1))])
                    ELSE Some([count |-> registrations,
                               lastAttempt |->
                                 toISOString(loginsDone
                                               + WaitedAfter(registrations - 1))])],
               NoCredentials, Null),
       now |-> loginsDone + WaitedAfter(registrations)]

\* How long the throttled user waits before going on: not at all, a minute,
\* or the sign-up cooldown.
ThrottledWaits ==
  {0, 60 * 1000, RATE_LIMIT_CONFIG.REGISTER_COOLDOWN_MINUTES * 60 * 1000}

\* The throttled user goes on, over backends that may fail any call.
InitThrottled ==
  /\ \E start \in {Throttled}, wait \in ThrottledWaits :
       /\ asyncStorage = start.world.storage
       /\ secureStore = start.world.secure
       /\ currentUser = start.world.currentUser
       /\ now = start.now + wait
  /\ streak = [k \in AttemptKeys |-> 0]
  /\ authState = initialState
  /\ isFirebaseConfigured = TRUE
  /\ inflight = NoCalls
  /\ listener = NotListening
  /\ ret = Plain("start", Null, FALSE, Null)
  /\ faulty = TRUE
  /\ budget = MaxThrottledSteps

\* Every call and every clock step uses up one unit of the budget.
Spend ==
  /\ budget > 0
  /\ budget' = budget - 1

\* ------------------------------------------------------------ time
COOLDOWN_MS ==
  [k \in AttemptKeys |->
     IF k = RATE_LIMIT_KEYS.LOGIN_ATTEMPTS
     THEN RATE_LIMIT_CONFIG.LOGIN_COOLDOWN_MINUTES * 60 * 1000
     ELSE RATE_LIMIT_CONFIG.REGISTER_COOLDOWN_MINUTES * 60 * 1000]

StoredCount(k) == IF asyncStorage[k] = Null THEN 0 ELSE Val(asyncStorage[k]).count

StoredLastAttempt(k) == DateFromISO(Val(asyncStorage[k]).lastAttempt)

\* The instants time may jump to: one minute on (early in a run), and, for
\* every stored record, the last millisecond of its cooldown and the first
\* one after it.
Instants ==
  {t \in {now + 60 * 1000} : t <= MaxMinuteTick}
    \cup UNION {{StoredLastAttempt(k) + COOLDOWN_MS[k] - 1,
                 StoredLastAttempt(k) + COOLDOWN_MS[k]} :
                k \in {j \in AttemptKeys : asyncStorage[j] # Null}}

Tick ==
  /\ \E t \in Instants :
       /\ t > now
       /\ t <= MaxClock
       /\ now' = t
  /\ Spend
  /\ UNCHANGED <<asyncStorage, secureStore, currentUser, ret, streak,
                 faulty, ui, inflight>>

\* ------------------------------------------------------------ the calls
\* streak after a call that is not a direct recordAttempt(false): a record
\* the call changed starts over.
StreakKept(after) ==
  [k \in AttemptKeys |-> IF after[k] = asyncStorage[k] THEN streak[k] ELSE 0]

\* streak after a direct recordAttempt(key, isSuccess)
StreakRecorded(key, isSuccess) ==
  [streak EXCEPT ![key] =
     IF isSuccess THEN 0
     ELSE IF asyncStorage[key] = Null THEN 1
     ELSE IF streak[key] > 0 THEN streak[key] + 1
     ELSE 0]

CheckLoginRateLimit ==
  \E f \in AsyncFaults :
    LET o == checkLoginRateLimit(asyncStorage, now, f)
    IN  /\ asyncStorage' = o.storage
        /\ ret' = Plain("checkLoginRateLimit", f, o.threw, o.value)
        /\ streak' = StreakKept(o.storage)
        /\ Spend
        /\ UNCHANGED <<secureStore, currentUser, now, faulty, ui, inflight>>

CheckRegisterRateLimit ==
  \E f \in AsyncFaults :
    LET o == checkRegisterRateLimit(asyncStorage, now, f)
    IN  /\ asyncStorage' = o.storage
        /\ ret' = Plain("checkRegisterRateLimit", f, o.threw, o.value)
        /\ streak' = StreakKept(o.storage)
        /\ Spend
        /\ UNCHANGED <<secureStore, currentUser, now, faulty, ui, inflight>>

RecordLoginAttempt ==
  \E isSuccess \in BOOLEAN, f \in AsyncFaults :
    LET o == recordLoginAttempt(asyncStorage, now, isSuccess, f)
    IN  /\ isSuccess \/ StoredCount(RATE_LIMIT_KEYS.LOGIN_ATTEMPTS) < MaxCount
        /\ now + o.delayMs <= MaxClock
        /\ asyncStorage' = o.storage
        /\ now' = now + o.delayMs
        /\ ret' = Ret("recordLoginAttempt", isSuccess, o.threw, Null, o.delayMs,
                      <<>>, FALSE, {})
        /\ streak' = StreakRecorded(RATE_LIMIT_KEYS.LOGIN_ATTEMPTS, isSuccess)
        /\ Spend
        /\ UNCHANGED <<secureStore, currentUser, faulty, ui, inflight>>

RecordRegisterAttempt ==
  \E isSuccess \in BOOLEAN, f \in AsyncFaults :
    LET o == recordRegisterAttempt(asyncStorage, now, isSuccess, f)
    IN  /\ isSuccess \/ StoredCount(RATE_LIMIT_KEYS.REGISTER_ATTEMPTS) < MaxCount
        /\ now + o.delayMs <= MaxClock
        /\ asyncStorage' = o.storage
        /\ now' = now + o.delayMs
        /\ ret' = Ret("recordRegisterAttempt", isSuccess, o.threw, Null, o.delayMs,
                      <<>>, FALSE, {})
        /\ streak' = StreakRecorded(RATE_LIMIT_KEYS.REGISTER_ATTEMPTS, isSuccess)
        /\ Spend
        /\ UNCHANGED <<secureStore, currentUser, faulty, ui, inflight>>

ClearRateLimitData ==
  \E g \in RateRemovals :
    /\ asyncStorage' = clearRateLimitData(asyncStorage, g)
    /\ ret' = Plain("clearRateLimitData", Null, FALSE, Null)
    /\ streak' = [k \in AttemptKeys |-> 0]
    /\ Spend
    /\ UNCHANGED <<secureStore, currentUser, now, faulty, ui, inflight>>

StoreTokens ==
  \E a \in AccessTokens, r \in {"", "rt1"}, w \in TokenWrites :
    LET o == storeTokens(secureStore, a, r, now, w)
    IN  /\ secureStore' = o.secure
        /\ ret' = Ret("storeTokens",
                      [accessToken |-> a, refreshToken |-> r, w |-> w],
                      o.threw, o.value, 0, <<>>, FALSE, o.wrote)
        /\ Spend
        /\ UNCHANGED <<asyncStorage, currentUser, now, streak, faulty, ui, inflight>>

GetTokens ==
  \E r \in TokenReads :
    /\ ret' = Plain("getTokens", r, FALSE, getTokens(secureStore, r))
    /\ Spend
    /\ UNCHANGED <<asyncStorage, secureStore, currentUser, now, streak,
                   faulty, ui, inflight>>

\* The profile a direct storeUserData call is given.
SomeProfile ==
  [uid |-> "u1", email |-> "a@x.io", displayName |-> "Ann",
   emailVerified |-> FALSE, photoURL |-> Null, lastLoginAt |-> toISOString(now)]

StoreUserData ==
  \E ok \in Ok :
    LET o == storeUserData(secureStore, SomeProfile, ok)
    IN  /\ secureStore' = o.secure
        /\ ret' = Ret("storeUserData", SomeProfile, o.threw, o.value, 0, <<>>,
                      FALSE, o.wrote)
        /\ Spend
        /\ UNCHANGED <<asyncStorage, currentUser, now, streak, faulty, ui, inflight>>

GetUserData ==
  \E ok \in Ok :
    /\ ret' = Plain("getUserData", [read |-> ok], FALSE,
                     getUserData(secureStore, ok))
    /\ Spend
    /\ UNCHANGED <<asyncStorage, secureStore, currentUser, now, streak,
                   faulty, ui, inflight>>

ClearAuthData ==
  \E d \in Removals :
    LET o == clearAuthData(secureStore, d)
    IN  /\ secureStore' = o.secure
        /\ ret' = Plain("clearAuthData", d, o.threw, o.value)
        /\ Spend
        /\ UNCHANGED <<asyncStorage, currentUser, now, streak, faulty, ui, inflight>>

GetLastLogin ==
  \E ok \in Ok :
    /\ ret' = Plain("getLastLogin", [read |-> ok], FALSE,
                     getLastLogin(secureStore, ok))
    /\ Spend
    /\ UNCHANGED <<asyncStorage, secureStore, currentUser, now, streak,
                   faulty, ui, inflight>>

\* The key-value primitives, called on one of the credential keys.
GetSecureItem ==
  \E key \in CredentialKeys, ok \in Ok :
    /\ ret' = Plain("getSecureItem", [key |-> key, ok |-> ok], FALSE,
                     getSecureItem(secureStore, key, ok))
    /\ Spend
    /\ UNCHANGED <<asyncStorage, secureStore, currentUser, now, streak,
                   faulty, ui, inflight>>

RemoveSecureItem ==
  \E key \in CredentialKeys, ok \in Ok :
    LET o == removeSecureItem(secureStore, key, ok)
    IN  /\ secureStore' = o.secure
        /\ ret' = Plain("removeSecureItem", [key |-> key, ok |-> ok], o.threw,
                         o.value)
        /\ Spend
        /\ UNCHANGED <<asyncStorage, currentUser, now, streak, faulty, ui, inflight>>

\* An auth action leaves the world o.world after o.delayMs of backoff.
Effects(op, arg, o) ==
  /\ \A k \in AttemptKeys :
       o.world.storage[k] # Null => Val(o.world.storage[k]).count <= MaxCount
  /\ now + o.delayMs <= MaxClock
  /\ asyncStorage' = o.world.storage
  /\ secureStore' = o.world.secure
  /\ currentUser' = o.world.currentUser
  /\ now' = now + o.delayMs
  /\ ret' = Ret(op, arg, o.threw, o.value, o.delayMs, o.calls, o.limited, o.wrote)
  /\ streak' = StreakKept(o.world.storage)
  /\ Spend
  /\ UNCHANGED <<faulty, isFirebaseConfigured, inflight, listener>>

\* An auth action called directly, not through the useAuth hook.
Settle(op, arg, o) ==
  /\ Effects(op, arg, o)
  /\ UNCHANGED authState

\* Which backend calls of a login or a registration succeed.
BackendAnswers(in) ==
  [fCheck |-> in.fCheck, fRecord |-> in.fRecord, fCatch |-> in.fCatch,
   w |-> in.w, u |-> in.u]

LoginUser ==
  \E in \in LoginInputs :
    Settle("loginUser", BackendAnswers(in),
           loginUser(World(asyncStorage, secureStore, currentUser), now, in))

RegisterUser ==
  \E displayName \in DisplayNames, in \in RegisterInputs :
    Settle("registerUser", BackendAnswers(in),
           registerUser(World(asyncStorage, secureStore, currentUser), now,
                        displayName, in))

LogoutUser ==
  \E signOut \in UnitAnswers, d \in Removals :
    Settle("logoutUser", Null,
           logoutUser(World(asyncStorage, secureStore, currentUser),
                      [signOut |-> signOut, d |-> d]))

RefreshAuthToken ==
  \E idToken \in IdTokenAnswers, w \in TokenWrites :
    Settle("refreshAuthToken", Null,
           refreshAuthToken(World(asyncStorage, secureStore, currentUser), now,
                            [idToken |-> idToken, w |-> w]))

SendPasswordReset ==
  \E reset \in PasswordResetAnswers :
    Settle("sendPasswordReset", Null,
           sendPasswordReset(World(asyncStorage, secureStore, currentUser),
                             [reset |-> reset]))

GetCurrentUser ==
  Settle("getCurrentUser", Null,
         getCurrentUser(World(asyncStorage, secureStore, currentUser)))

\* The screens' calls, through the useAuth hook.
Login ==
  \E in \in LoginInputs :
    LET o == login(World(asyncStorage, secureStore, currentUser), authState,
                   isFirebaseConfigured, now, in)
    IN  /\ Effects("login", Null, o)
        /\ authState' = o.state

Register ==
  \E displayName \in DisplayNames, in \in RegisterInputs :
    LET o == register(World(asyncStorage, secureStore, currentUser), authState,
                      isFirebaseConfigured, now, displayName, in)
    IN  /\ Effects("register", Null, o)
        /\ authState' = o.state

\* ------------------------------------------------ the calls, await by await
\* recordLoginAttempt(false) / recordRegisterAttempt(false), one suspension
\* point at a time. The call is made: getAttemptData issues its getItem.
CallRecordAttempt(p) ==
  \E k \in AttemptKeys :
    /\ inflight[p] = Idle
    /\ inflight' = [inflight EXCEPT ![p] =
                      [Idle EXCEPT !.fn = "recordAttempt", !.pc = "getItem",
                                   !.key = k,
                                   !.seen = StoredCount(k)]]
    /\ UNCHANGED <<asyncStorage, secureStore, currentUser, now, ret, streak,
                   budget, faulty, ui>>

\* getItem resolves: count is read, now = new Date() is taken, and
\* storeAttemptData issues its setItem.
GetItemResolves(p) ==
  /\ inflight[p].pc = "getItem"
  /\ inflight' = [inflight EXCEPT ![p] =
                    [@ EXCEPT !.pc = "setItem",
                              !.count = getAttemptData(asyncStorage, inflight[p].key,
                                                       TRUE).count,
                              !.at = now]]
  /\ UNCHANGED <<asyncStorage, secureStore, currentUser, now, ret, streak,
                 budget, faulty, ui>>

\* setItem resolves: the record is written; for newCount > 1 the backoff
\* timer is set, otherwise the call returns.
SetItemResolves(p) ==
  /\ inflight[p].pc = "setItem"
  /\ LET key == inflight[p].key
         newCount == inflight[p].count + 1
         delayMs == calculateBackoffDelay(newCount, RATE_LIMIT_CONFIG.BASE_DELAY_MS,
                                          RATE_LIMIT_CONFIG.MAX_DELAY_MS)
     IN  /\ asyncStorage' = storeAttemptData(asyncStorage, key, newCount,
                                             inflight[p].at, TRUE)
         /\ inflight' = [inflight EXCEPT ![p] =
                           IF newCount > 1
                             THEN [@ EXCEPT !.pc = "delay", !.wakeAt = now + delayMs]
                             ELSE [@ EXCEPT !.pc = "returned"]]
  /\ UNCHANGED <<secureStore, currentUser, now, ret, streak, budget, faulty, ui>>

\* setTimeout's callback runs, not before its time: delay(ms) resolves and
\* the call returns.
TimerFires(p) ==
  /\ inflight[p].pc = "delay"
  /\ now >= inflight[p].wakeAt
  /\ inflight' = [inflight EXCEPT ![p] = [@ EXCEPT !.pc = "returned"]]
  /\ UNCHANGED <<asyncStorage, secureStore, currentUser, now, ret, streak,
                 budget, faulty, ui>>

\* Time passes while calls wait, up to the next timer that is due.
Elapse ==
  /\ \E p \in Callers :
       /\ inflight[p].pc = "delay"
       /\ inflight[p].wakeAt > now
       /\ \A q \in Callers :
            (inflight[q].pc = "delay" /\ inflight[q].wakeAt > now)
              => inflight[q].wakeAt >= inflight[p].wakeAt
       /\ now' = inflight[p].wakeAt
  /\ UNCHANGED <<asyncStorage, secureStore, currentUser, ret, streak, budget,
                 faulty, ui, inflight>>

\* loginUser / registerUser from the call to the point where it either has
\* its result or is suspended in the delay() of recordAttempt(false); what
\* it stores is stored by then. A caller calls again only once its earlier
\* call has returned.
AuthCallStarts(p, fn, k, o) ==
  /\ inflight[p].pc \in {"idle", "returned"}
  /\ \A j \in AttemptKeys :
       o.world.storage[j] # Null => Val(o.world.storage[j]).count <= MaxCount
  /\ asyncStorage' = o.world.storage
  /\ secureStore' = o.world.secure
  /\ currentUser' = o.world.currentUser
  /\ inflight' = [inflight EXCEPT ![p] =
                    [Idle EXCEPT !.fn = fn,
                                 !.pc = IF o.delayMs > 0 THEN "delay" ELSE "returned",
                                 !.key = k,
                                 !.seen = StoredCount(k),
                                 !.count = IF o.world.storage[k] = Null THEN 0
                                           ELSE Val(o.world.storage[k]).count,
                                 !.at = now,
                                 !.wakeAt = now + o.delayMs]]
  /\ Spend
  /\ UNCHANGED <<now, ret, streak, faulty, ui>>

LoginUserCalled ==
  \E p \in Callers, in \in LoginInputs :
    AuthCallStarts(p, "loginUser", RATE_LIMIT_KEYS.LOGIN_ATTEMPTS,
                   loginUser(World(asyncStorage, secureStore, currentUser), now, in))

RegisterUserCalled ==
  \E p \in Callers, displayName \in DisplayNames, in \in RegisterInputs :
    AuthCallStarts(p, "registerUser", RATE_LIMIT_KEYS.REGISTER_ATTEMPTS,
                   registerUser(World(asyncStorage, secureStore, currentUser), now,
                                displayName, in))

\* ------------------------------------------------ the running app
\* navigation/RootNavigator.js: what is on screen.
RootNavigator ==
  IF authState.isLoading THEN "LoadingScreen"
  ELSE IF authState.isAuthenticated THEN "AppStack"
  ELSE "AuthStack"

\* authActions.onAuthStateChange: what the listener's callback is given for
\* the provider's user.
onAuthStateChange(user) ==
  IF user # Null
    THEN [isAuthenticated |-> TRUE,
          user |-> Some([uid |-> Val(user).uid,
                         email |-> Val(user).email,
                         displayName |-> OrElse(Val(user).displayName, ""),
                         emailVerified |-> Val(user).emailVerified,
                         photoURL |-> Val(user).photoURL])]
    ELSE [isAuthenticated |-> FALSE, user |-> Null]

\* The provider tells its listeners when the signed-in user changes from
\* before to after; the AuthProvider's callback starts for each notification.
Notified(before, after) ==
  IF listener.started /\ isFirebaseConfigured
     /\ (IF before = Null \/ after = Null THEN before # after
         ELSE Val(before).uid # Val(after).uid)
    THEN [listener EXCEPT !.calls = Append(@, onAuthStateChange(after))]
    ELSE listener

\* The sequence without its i-th element.
Without(seq, i) ==
  [j \in 1..(Len(seq) - 1) |-> IF j < i THEN seq[j] ELSE seq[j + 1]]

\* AuthProvider's effect: initializeAuth. Subscribing makes the provider
\* report the current user.
InitializeAuth ==
  /\ ~listener.started
  /\ IF ~isFirebaseConfigured
       THEN /\ authState' =
                 authReducer(authState,
                             Dispatch(AUTH_ACTIONS.AUTH_STATE_CHANGED,
                                      [isAuthenticated |-> FALSE, user |-> Null]))
            /\ listener' = [listener EXCEPT !.started = TRUE]
       ELSE /\ listener' = [started |-> TRUE,
                            calls |-> <<onAuthStateChange(currentUser)>>]
            /\ UNCHANGED authState
  /\ UNCHANGED <<asyncStorage, secureStore, currentUser, now, ret, streak,
                 budget, faulty, isFirebaseConfigured, inflight>>

\* One of the listener's callbacks gets the answer of the credential store:
\* getUserData for a signed-in notification, clearAuthData for a signed-out
\* one. Nothing catches a rejection of clearAuthData: the callback ends
\* there.
ListenerResolves ==
  \E i \in 1..Len(listener.calls), ok \in Ok, d \in Removals :
    LET authArg == listener.calls[i]
        storedUserData == getUserData(secureStore, ok)
        user == IF storedUserData # Null THEN storedUserData ELSE authArg.user
        cleared == clearAuthData(secureStore, d)
    IN  /\ listener' = [listener EXCEPT !.calls = Without(@, i)]
        /\ IF authArg.isAuthenticated /\ authArg.user # Null
             THEN /\ authState' =
                       authReducer(authState,
                                   Dispatch(AUTH_ACTIONS.AUTH_STATE_CHANGED,
                                            [isAuthenticated |-> TRUE, user |-> user]))
                  /\ UNCHANGED secureStore
             ELSE /\ secureStore' = cleared.secure
                  /\ authState' =
                       IF cleared.threw THEN authState
                       ELSE authReducer(authState,
                                        Dispatch(AUTH_ACTIONS.AUTH_STATE_CHANGED,
                                                 [isAuthenticated |-> FALSE,
                                                  user |-> Null]))
        /\ UNCHANGED <<asyncStorage, currentUser, now, ret, streak, budget,
                       faulty, isFirebaseConfigured, inflight>>

\* A hook function is called from the screen that is mounted: it dispatches
\* its START action and awaits the auth action.
Requested(p, stack, fn, start) ==
  /\ RootNavigator = stack
  /\ inflight[p].pc = "idle"
  /\ isFirebaseConfigured
  /\ authState' = authReducer(authState, Dispatch(start, <<>>))
  /\ inflight' = [inflight EXCEPT ![p] = [Idle EXCEPT !.fn = fn, !.pc = "await"]]
  /\ Spend
  /\ UNCHANGED <<asyncStorage, secureStore, currentUser, now, ret, streak,
                 faulty, isFirebaseConfigured, listener>>

\* LoginScreen.handleLogin with a valid form: useAuth().login
HandleLogin ==
  \E p \in Callers :
    Requested(p, "AuthStack", "login", AUTH_ACTIONS.LOGIN_START)

\* RegisterScreen.handleRegister with a valid form: useAuth().register
HandleRegister ==
  \E p \in Callers :
    Requested(p, "AuthStack", "register", AUTH_ACTIONS.REGISTER_START)

\* ProfileScreen.handleLogout, confirmed: useAuth().logout
HandleLogout ==
  \E p \in Callers :
    Requested(p, "AppStack", "logout", AUTH_ACTIONS.LOGOUT_START)

\* The awaited auth action resolves with outcome o, and the hook dispatches
\* on its result.
Resolved(p, fn, o, success, failure, unexpected) ==
  /\ inflight[p].fn = fn
  /\ inflight[p].pc = "await"
  /\ \A k \in AttemptKeys :
       o.world.storage[k] # Null => Val(o.world.storage[k]).count <= MaxCount
  /\ asyncStorage' = o.world.storage
  /\ secureStore' = o.world.secure
  /\ currentUser' = o.world.currentUser
  /\ now' = now + o.delayMs
  /\ streak' = StreakKept(o.world.storage)
  /\ authState' = HookResult(o, authState, success, failure, unexpected).state
  /\ listener' = Notified(currentUser, o.world.currentUser)
  /\ inflight' = [inflight EXCEPT ![p] = Idle]
  /\ UNCHANGED <<ret, budget, faulty, isFirebaseConfigured>>

LoginResolves ==
  \E p \in Callers, in \in LoginInputs :
    Resolved(p, "login",
             loginUser(World(asyncStorage, secureStore, currentUser), now, in),
             AUTH_ACTIONS.LOGIN_SUCCESS, AUTH_ACTIONS.LOGIN_FAILURE,
             <<"An unexpected error occurred during login.">>)

RegisterResolves ==
  \E p \in Callers, displayName \in DisplayNames, in \in RegisterInputs :
    Resolved(p, "register",
             registerUser(World(asyncStorage, secureStore, currentUser), now,
                          displayName, in),
             AUTH_ACTIONS.REGISTER_SUCCESS, AUTH_ACTIONS.REGISTER_FAILURE,
             <<"An unexpected error occurred during registration.">>)

LogoutResolves ==
  \E p \in Callers, signOut \in UnitAnswers, d \in Removals :
    Resolved(p, "logout",
             logoutUser(World(asyncStorage, secureStore, currentUser),
                        [signOut |-> signOut, d |-> d]),
             AUTH_ACTIONS.LOGOUT_SUCCESS, AUTH_ACTIONS.LOGOUT_FAILURE,
             <<"An unexpected error occurred during logout.">>)

\* LoginScreen's effects: an error in the auth state is cleared when the
\* form changes and when the screen unmounts.
ClearError ==
  /\ authState.error # Null
  /\ authState' = authReducer(authState, Dispatch(AUTH_ACTIONS.CLEAR_ERROR, <<>>))
  /\ UNCHANGED <<asyncStorage, secureStore, currentUser, now, ret, streak,
                 budget, faulty, isFirebaseConfigured, inflight, listener>>

\* useAuth().setLoading(isLoading)
SetLoading ==
  \E isLoading \in BOOLEAN :
    /\ authState' =
         authReducer(authState,
                     Dispatch(AUTH_ACTIONS.SET_LOADING, [isLoading |-> isLoading]))
    /\ UNCHANGED <<asyncStorage, secureStore, currentUser, now, ret, streak,
                   budget, faulty, isFirebaseConfigured, inflight, listener>>

\* ------------------------------------------------------------ specifications
\* The rate limiter's exported functions, called one at a time in any order.
Next ==
  \/ CheckLoginRateLimit
  \/ CheckRegisterRateLimit
  \/ RecordLoginAttempt
  \/ RecordRegisterAttempt
  \/ ClearRateLimitData
  \/ Tick

Spec == Init /\ [][Next]_vars

\* The same functions over an AsyncStorage that may fail any call.
SpecLimiterFaults == InitLimiterFaults /\ [][Next]_vars

\* The credential store's exported functions, called one at a time.
NextStore ==
  \/ StoreTokens
  \/ GetTokens
  \/ StoreUserData
  \/ GetUserData
  \/ ClearAuthData
  \/ GetLastLogin
  \/ Tick

SpecStore == Init /\ [][NextStore]_vars

\* The credential store and its key-value primitives over a backend that
\* may fail any call.
NextStoreFaults ==
  \/ StoreTokens
  \/ GetTokens
  \/ StoreUserData
  \/ GetUserData
  \/ ClearAuthData
  \/ GetLastLogin
  \/ GetSecureItem
  \/ RemoveSecureItem
  \/ Tick

SpecStoreFaults == InitStoreFaults /\ [][NextStoreFaults]_vars

\* The rate limiter's and the credential store's writers and deleters.
NextSideBySide ==
  \/ CheckLoginRateLimit
  \/ CheckRegisterRateLimit
  \/ RecordLoginAttempt
  \/ RecordRegisterAttempt
  \/ ClearRateLimitData
  \/ StoreTokens
  \/ StoreUserData
  \/ ClearAuthData
  \/ Tick

SpecSideBySide == InitSideBySide /\ [][NextSideBySide]_vars

\* The auth actions, as the app calls them, one at a time.
NextApp ==
  \/ LoginUser
  \/ RegisterUser
  \/ LogoutUser
  \/ RefreshAuthToken
  \/ Tick

SpecApp == InitApp /\ [][NextApp]_vars

\* The six auth actions over backends that may fail, and a provider that may
\* refuse.
NextAppFaults ==
  \/ LoginUser
  \/ RegisterUser
  \/ LogoutUser
  \/ SendPasswordReset
  \/ RefreshAuthToken
  \/ GetCurrentUser
  \/ Tick

SpecAppFaults == InitAppFaults /\ [][NextAppFaults]_vars

\* The sign-in and sign-up screens: a user who keeps submitting them, in a
\* build with or without the provider's keys.
InitScreens ==
  /\ asyncStorage = NoAttempts
  /\ secureStore = NoCredentials
  /\ currentUser = Null
  /\ now = 0
  /\ streak = [k \in AttemptKeys |-> 0]
  /\ authState = initialState
  /\ isFirebaseConfigured \in BOOLEAN
  /\ inflight = NoCalls
  /\ listener = NotListening
  /\ ret = Plain("start", Null, FALSE, Null)
  /\ faulty = FALSE
  /\ budget = MaxScreenSteps

NextScreens ==
  \/ Login
  \/ Register
  \/ Tick

SpecScreens == InitScreens /\ [][NextScreens]_vars

\* A user who keeps trying to log in and to register.
NextSignIn ==
  \/ LoginUser
  \/ RegisterUser
  \/ Tick

SpecSignIn == InitSignIn /\ [][NextSignIn]_vars

\* The same user, throttled, over backends that may fail any call.
SpecThrottled == InitThrottled /\ [][NextSignIn]_vars

\* The backoff calculator on its own: Init draws the arguments, the one
\* action applies the function.
BaseDelays == {1, 500, 1000, 3000}
MaxDelays == {1000, 10000, 30000}

InitBackoff ==
  /\ Fresh
  /\ faulty = FALSE
  /\ budget = 1
  /\ \E attemptCount \in 1..MaxAttemptArg, baseDelay \in BaseDelays,
        maxDelay \in MaxDelays :
       ret = Plain("input",
                   [attemptCount |-> attemptCount, baseDelay |-> baseDelay,
                    maxDelay |-> maxDelay],
                   FALSE, Null)

CalculateBackoffDelay ==
  /\ ret.op = "input"
  /\ ret' = Plain("calculateBackoffDelay", ret.arg, FALSE,
                  Some(calculateBackoffDelay(ret.arg.attemptCount,
                                             ret.arg.baseDelay,
                                             ret.arg.maxDelay)))
  /\ Spend
  /\ UNCHANGED <<asyncStorage, secureStore, currentUser, now, streak,
                 faulty, ui, inflight>>

NextBackoff == CalculateBackoffDelay

SpecBackoff == InitBackoff /\ [][NextBackoff]_vars

\* Two callers that each record one failed attempt, of either kind, while
\* the other may be anywhere in its own call.
InitRace ==
  /\ \E c \in 0..MaxRaceCount :
       asyncStorage =
         [k \in AttemptKeys |->
            IF c = 0 THEN Null
            ELSE Some([count |-> c, lastAttempt |-> toISOString(0)])]
  /\ secureStore = NoCredentials
  /\ currentUser = Null
  /\ now = 0
  /\ streak = [k \in AttemptKeys |-> 0]
  /\ authState = initialState
  /\ isFirebaseConfigured = TRUE
  /\ inflight = NoCalls
  /\ listener = NotListening
  /\ ret = Plain("start", Null, FALSE, Null)
  /\ faulty = FALSE
  /\ budget = 0

RecordAttemptCalled == \E p \in Callers : CallRecordAttempt(p)
GetItemResolved == \E p \in Callers : GetItemResolves(p)
SetItemResolved == \E p \in Callers : SetItemResolves(p)
TimerFired == \E p \in Callers : TimerFires(p)

NextRace ==
  \/ RecordAttemptCalled
  \/ GetItemResolved
  \/ SetItemResolved
  \/ TimerFired
  \/ Elapse

SpecRace == InitRace /\ [][NextRace]_vars

\* Sign-in and sign-up whose backoff wait takes time: the timer is set, time
\* passes, the timer fires.
InitWait ==
  /\ Fresh
  /\ ret = Plain("start", Null, FALSE, Null)
  /\ faulty = FALSE
  /\ budget = MaxWaitSteps

NextWait ==
  \/ LoginUserCalled
  \/ RegisterUserCalled
  \/ TimerFired
  \/ Elapse

\* The event loop keeps running: time passes and a due timer's callback is
\* run.
SpecWait ==
  /\ InitWait
  /\ [][NextWait]_vars
  /\ WF_vars(Elapse)
  /\ \A p \in Callers : WF_vars(TimerFires(p))

\* The app from its start, on a device with or without a session kept by
\* the provider, with every backend working.
InitRunningApp ==
  /\ \E world \in {World(NoAttempts, NoCredentials, Null), SignedIn} :
       /\ asyncStorage = world.storage
       /\ secureStore = world.secure
       /\ currentUser = world.currentUser
  /\ now = 0
  /\ streak = [k \in AttemptKeys |-> 0]
  /\ authState = initialState
  /\ isFirebaseConfigured \in BOOLEAN
  /\ inflight = NoCalls
  /\ listener = NotListening
  /\ ret = Plain("start", Null, FALSE, Null)
  /\ faulty = FALSE
  /\ budget = MaxAppRequests

NextRunningApp ==
  \/ InitializeAuth
  \/ ListenerResolves
  \/ HandleLogin
  \/ LoginResolves
  \/ HandleRegister
  \/ RegisterResolves
  \/ HandleLogout
  \/ LogoutResolves
  \/ ClearError

SpecRunningApp == InitRunningApp /\ [][NextRunningApp]_vars

\* The app from its start over a credential store that may fail any call:
\* the listener's callbacks and the profile screen's logout. Every promise
\* settles: the effect runs, and a pending callback or logout gets its answer.
InitListenerFaults ==
  /\ \E world \in {World(NoAttempts, NoCredentials, Null), SignedIn} :
       /\ asyncStorage = world.storage
       /\ secureStore = world.secure
       /\ currentUser = world.currentUser
  /\ now = 0
  /\ streak = [k \in AttemptKeys |-> 0]
  /\ authState = initialState
  /\ isFirebaseConfigured \in BOOLEAN
  /\ inflight = NoCalls
  /\ listener = NotListening
  /\ ret = Plain("start", Null, FALSE, Null)
  /\ faulty = TRUE
  /\ budget = MaxListenerRequests

NextListenerFaults ==
  \/ InitializeAuth
  \/ ListenerResolves
  \/ HandleLogout
  \/ LogoutResolves

SpecListenerFaults ==
  /\ InitListenerFaults
  /\ [][NextListenerFaults]_vars
  /\ WF_vars(InitializeAuth)
  /\ WF_vars(ListenerResolves)
  /\ WF_vars(LogoutResolves)

\* Every action the auth context makes available, dispatched in any order
\* over backends that may fail any call.
InitAuthContext ==
  /\ \E world \in {World(NoAttempts, NoCredentials, Null), SignedIn} :
       /\ asyncStorage = world.storage
       /\ secureStore = world.secure
       /\ currentUser = world.currentUser
  /\ now = 0
  /\ streak = [k \in AttemptKeys |-> 0]
  /\ authState = initialState
  /\ isFirebaseConfigured \in BOOLEAN
  /\ inflight = NoCalls
  /\ listener = NotListening
  /\ ret = Plain("start", Null, FALSE, Null)
  /\ faulty = TRUE
  /\ budget = MaxContextRequests

NextAuthContext ==
  \/ InitializeAuth
  \/ ListenerResolves
  \/ HandleLogin
  \/ LoginResolves
  \/ HandleRegister
  \/ RegisterResolves
  \/ HandleLogout
  \/ LogoutResolves
  \/ ClearError
  \/ SetLoading

SpecAuthContext == InitAuthContext /\ [][NextAuthContext]_vars

\* ------------------------------------------------------------ properties
LOGIN == RATE_LIMIT_KEYS.LOGIN_ATTEMPTS
REGISTER == RATE_LIMIT_KEYS.REGISTER_ATTEMPTS

MAX_ATTEMPTS ==
  [k \in AttemptKeys |->
     IF k = LOGIN THEN RATE_LIMIT_CONFIG.MAX_LOGIN_ATTEMPTS
     ELSE RATE_LIMIT_CONFIG.MAX_REGISTER_ATTEMPTS]

CheckOp == [k \in AttemptKeys |->
              IF k = LOGIN THEN "checkLoginRateLimit" ELSE "checkRegisterRateLimit"]
RecordOp == [k \in AttemptKeys |->
               IF k = LOGIN THEN "recordLoginAttempt" ELSE "recordRegisterAttempt"]

\* The record of kind k as the last call found it.
CountBefore(k) ==
  IF ret.before.storage[k] = Null THEN 0 ELSE Val(ret.before.storage[k]).count

LastAttemptBefore(k) == DateFromISO(Val(ret.before.storage[k]).lastAttempt)

\* The last call found kind k throttled with its cooldown run out.
ExpiredBefore(k) ==
  /\ ret.before.storage[k] # Null
  /\ CountBefore(k) >= MAX_ATTEMPTS[k]
  /\ ret.at >= LastAttemptBefore(k) + COOLDOWN_MS[k]

\* The step is not a stuttering step.
IsCall == budget' = budget - 1

TokenKeys ==
  {STORAGE_KEYS.ACCESS_TOKEN, STORAGE_KEYS.REFRESH_TOKEN, STORAGE_KEYS.LAST_LOGIN}

\* C1: when recordLoginAttempt(false) has been called five times in a row
\* starting from no stored record, a checkLoginRateLimit made as soon as the
\* fifth call returns answers isLimited = true with a wait of 15 minutes
\* (LOGIN_COOLDOWN_MINUTES).
C1_FiveFailuresLimit ==
  [][(/\ ret.op = "recordLoginAttempt"
      /\ streak[LOGIN] = RATE_LIMIT_CONFIG.MAX_LOGIN_ATTEMPTS
      /\ now = ret.at + ret.delayMs
      /\ IsCall
      /\ ret'.op = "checkLoginRateLimit")
     => (/\ ~ret'.threw
         /\ ret'.value.isLimited
         /\ ret'.value.waitTime = 15
         /\ ret'.value.waitTime = RATE_LIMIT_CONFIG.LOGIN_COOLDOWN_MINUTES)]_vars

C1_Witness ==
  /\ ret.op = "checkLoginRateLimit"
  /\ streak[LOGIN] = 5
  /\ StoredCount(LOGIN) = 5
  /\ ret.at = StoredLastAttempt(LOGIN) + RATE_LIMIT_CONFIG.MAX_DELAY_MS
  /\ ret.value.isLimited
  /\ ret.value.waitTime = 15

\* C2: loginUser and registerUser make the rate-limit check of their kind
\* their first call, and an invocation whose check answers isLimited = true
\* fails without ever calling the identity provider.
C2_LimitedSkipsProvider ==
  /\ ret.op = "loginUser" =>
       /\ Len(ret.calls) > 0
       /\ Head(ret.calls) = "checkLoginRateLimit"
       /\ ret.limited =>
            /\ \A i \in 1..Len(ret.calls) :
                 ret.calls[i] \notin {"signInWithEmailAndPassword", "getIdToken"}
            /\ ~ret.value.success
  /\ ret.op = "registerUser" =>
       /\ Len(ret.calls) > 0
       /\ Head(ret.calls) = "checkRegisterRateLimit"
       /\ ret.limited =>
            /\ \A i \in 1..Len(ret.calls) :
                 ret.calls[i] \notin {"createUserWithEmailAndPassword",
                                      "updateProfile", "getIdToken"}
            /\ ~ret.value.success

C2_Witness ==
  /\ ret.op = "loginUser"
  /\ ret.limited
  /\ ret.calls = <<"checkLoginRateLimit">>
  /\ ~ret.value.success

\* C3: a rate-limit check made when the stored count has reached the
\* maximum and the clock is at or past lastAttempt + cooldown answers
\* isLimited = false and leaves the record of that kind absent; for login
\* and for registration alike.
C3_LazyReset ==
  \A k \in AttemptKeys :
    (ret.op = CheckOp[k] /\ ExpiredBefore(k))
      => (/\ ~ret.threw
          /\ ~ret.value.isLimited
          /\ asyncStorage[k] = Null)

C3_Witness ==
  /\ ret.op = "checkLoginRateLimit"
  /\ ret.before.storage[LOGIN] # Null
  /\ CountBefore(LOGIN) >= 5
  /\ ret.at = LastAttemptBefore(LOGIN) + 15 * 60 * 1000
  /\ ~ret.value.isLimited
  /\ asyncStorage[LOGIN] = Null

\* C4: after recordLoginAttempt(true) or recordRegisterAttempt(true)
\* returns, whatever count was stored, the record of that kind is absent; the
\* call changes nothing when the record was absent already, and it returns
\* without any backoff delay.
C4_SuccessDeletes ==
  \A k \in AttemptKeys :
    (ret.op = RecordOp[k] /\ ret.arg = TRUE)
      => (/\ ~ret.threw
          /\ asyncStorage[k] = Null
          /\ ret.before.storage[k] = Null => asyncStorage = ret.before.storage
          /\ ret.delayMs = 0)

C4_Witness ==
  /\ ret.op = "recordLoginAttempt"
  /\ ret.arg = TRUE
  /\ CountBefore(LOGIN) >= 5
  /\ asyncStorage[LOGIN] = Null
  /\ now = ret.at

\* C5: calculateBackoffDelay(n, base, max), n >= 1, is
\* min(base * 2^(n-1), max); with base 1000 and max 10000 it is 1000 for n = 1,
\* 8000 for n = 4 and 10000 for n = 5.
C5_BackoffFormula ==
  ret.op = "calculateBackoffDelay" =>
    LET n == ret.arg.attemptCount
        base == ret.arg.baseDelay
        max == ret.arg.maxDelay
        exp == base * 2^(n - 1)
        v == Val(ret.value)
    IN  /\ n >= 1
        /\ v = IF exp <= max THEN exp ELSE max
        /\ (base = 1000 /\ max = 10000 /\ n = 1) => v = 1000
        /\ (base = 1000 /\ max = 10000 /\ n = 4) => v = 8000
        /\ (base = 1000 /\ max = 10000 /\ n = 5) => v = 10000

C5_Witness ==
  /\ ret.op = "calculateBackoffDelay"
  /\ ret.arg = [attemptCount |-> 5, baseDelay |-> 1000, maxDelay |-> 10000]
  /\ ret.value = Some(10000)

\* C6: recordLoginAttempt(false) / recordRegisterAttempt(false) called with
\* stored count c (0 when there is no record) stores {count: c + 1,
\* lastAttempt: the time of the call} and then keeps its caller waiting for
\* calculateBackoffDelay(c + 1) exactly when c + 1 > 1; the first failure
\* returns at once.
C6_FailureRecorded ==
  \A k \in AttemptKeys :
    (ret.op = RecordOp[k] /\ ret.arg = FALSE)
      => LET c == CountBefore(k)
         IN  /\ ~ret.threw
             /\ asyncStorage[k] # Null
             /\ StoredCount(k) = c + 1
             /\ StoredLastAttempt(k) = ret.at
             /\ ret.delayMs =
                  IF c + 1 > 1
                  THEN calculateBackoffDelay(c + 1,
                                             RATE_LIMIT_CONFIG.BASE_DELAY_MS,
                                             RATE_LIMIT_CONFIG.MAX_DELAY_MS)
                  ELSE 0
             /\ c + 1 > 1 => ret.delayMs > 0
             /\ now >= ret.at + ret.delayMs

C6_Witness ==
  /\ ret.op = "recordRegisterAttempt"
  /\ ret.arg = FALSE
  /\ CountBefore(REGISTER) = 1
  /\ StoredCount(REGISTER) = 2
  /\ ret.delayMs = 2000
  /\ now = ret.at + 2000

\* C7, as the specification states it: every rate-limit check that answers
\* isLimited = false leaves all persisted state as it found it.
C7_CheckChangesNothing ==
  \A k \in AttemptKeys :
    (ret.op = CheckOp[k] /\ ~ret.threw /\ ~ret.value.isLimited)
      => (/\ asyncStorage = ret.before.storage
          /\ secureStore = ret.before.secure)

\* C7: a rate-limit check that answers isLimited = false leaves all
\* persisted state as it found it, with one exception: when it found the
\* count at the maximum and the cooldown run out, it deletes the record of its
\* own kind, and changes nothing else.
C7_CheckChangesOnlyExpired ==
  \A k \in AttemptKeys :
    (ret.op = CheckOp[k] /\ ~ret.threw /\ ~ret.value.isLimited)
      => (/\ secureStore = ret.before.secure
          /\ \A j \in AttemptKeys \ {k} : asyncStorage[j] = ret.before.storage[j]
          /\ asyncStorage[k] =
               IF ExpiredBefore(k) THEN Null ELSE ret.before.storage[k])

C7_Witness ==
  /\ ret.op = "checkRegisterRateLimit"
  /\ ~ret.value.isLimited
  /\ ret.before.storage[REGISTER] # Null
  /\ CountBefore(REGISTER) = 2
  /\ asyncStorage = ret.before.storage

\* C8, as the specification states it: the stored count of a kind never
\* goes down except by the record being deleted, and the record is deleted
\* only by a successful attempt of that kind or by a check of that kind made
\* after the cooldown has run out.
C8_DeletedOnlyBySuccessOrExpiry ==
  \A k \in AttemptKeys :
    /\ (ret.before.storage[k] # Null /\ asyncStorage[k] # Null)
         => StoredCount(k) >= CountBefore(k)
    /\ (ret.before.storage[k] # Null /\ asyncStorage[k] = Null)
         => \/ ret.op = RecordOp[k] /\ ret.arg = TRUE
            \/ ret.op = CheckOp[k] /\ ExpiredBefore(k)

\* C8: the stored count of a kind never goes down except by the record
\* being deleted, and the record is deleted only by a successful attempt of
\* that kind, by a check of that kind made after the cooldown has run out, or
\* by clearRateLimitData.
C8_DeletedOnlyBySuccessExpiryOrClear ==
  \A k \in AttemptKeys :
    /\ (ret.before.storage[k] # Null /\ asyncStorage[k] # Null)
         => StoredCount(k) >= CountBefore(k)
    /\ (ret.before.storage[k] # Null /\ asyncStorage[k] = Null)
         => \/ ret.op = RecordOp[k] /\ ret.arg = TRUE
            \/ ret.op = CheckOp[k] /\ ExpiredBefore(k)
            \/ ret.op = "clearRateLimitData"

C8_Witness ==
  /\ ret.op = "clearRateLimitData"
  /\ CountBefore(LOGIN) = 3
  /\ asyncStorage[LOGIN] = Null

\* C9, as the specification states it: login, registration and token
\* refresh write the tokens and the profile together, so no invocation writes
\* the tokens without the profile, or the profile without the tokens.
C9_TokensAndProfileTogether ==
  ret.op \in {"loginUser", "registerUser", "refreshAuthToken"} =>
    ((STORAGE_KEYS.ACCESS_TOKEN \in ret.wrote
        \/ STORAGE_KEYS.REFRESH_TOKEN \in ret.wrote)
       <=> STORAGE_KEYS.USER_DATA \in ret.wrote)

\* C9: a successful login or registration writes the tokens (access token,
\* refresh token, last login) and then the profile; a successful token refresh
\* writes the tokens only and never the profile; no invocation of the three
\* writes the profile without having written the tokens.
C9_ProfileOnlyAfterTokens ==
  /\ (ret.op \in {"loginUser", "registerUser"} /\ ret.value.success)
       => /\ ret.wrote = TokenKeys \cup {STORAGE_KEYS.USER_DATA}
          /\ \E i, j \in 1..Len(ret.calls) :
               /\ i < j
               /\ ret.calls[i] = "storeTokens"
               /\ ret.calls[j] = "storeUserData"
  /\ ret.op \in {"loginUser", "registerUser", "refreshAuthToken"}
       => (STORAGE_KEYS.USER_DATA \in ret.wrote => TokenKeys \subseteq ret.wrote)
  /\ ret.op = "refreshAuthToken"
       => /\ STORAGE_KEYS.USER_DATA \notin ret.wrote
          /\ secureStore[STORAGE_KEYS.USER_DATA]
               = ret.before.secure[STORAGE_KEYS.USER_DATA]
          /\ ret.value.success => ret.wrote = TokenKeys

C9_Witness ==
  /\ ret.op = "refreshAuthToken"
  /\ ret.value.success
  /\ ret.wrote = TokenKeys
  /\ secureStore[STORAGE_KEYS.ACCESS_TOKEN] # Null
  /\ secureStore[STORAGE_KEYS.USER_DATA] = Null

\* C10: when storeTokens(a, r) has completed and the next call is
\* getTokens(), with no write or clear in between, getTokens returns exactly
\* {accessToken: a, refreshToken: r}.
C10_TokensRoundTrip ==
  [][(/\ ret.op = "storeTokens"
      /\ ~ret.threw
      /\ IsCall
      /\ ret'.op = "getTokens")
     => ret'.value = [accessToken |-> Some(ret.arg.accessToken),
                      refreshToken |-> Some(ret.arg.refreshToken)]]_vars

C10_Witness ==
  /\ ret.op = "getTokens"
  /\ ret.value = [accessToken |-> Some("tokB"), refreshToken |-> Some("rt1")]
  /\ secureStore[STORAGE_KEYS.LAST_LOGIN] # Null

\* C11: from any credential state, once clearAuthData() has completed
\* successfully, getTokens() returns both tokens absent, getUserData() returns
\* absent and getLastLogin() returns absent (whether or not the reads
\* themselves succeed).
C11_ClearedReadsAbsent ==
  (ret.op = "clearAuthData" /\ ~ret.threw)
    => \A r \in [access : BOOLEAN, refresh : BOOLEAN], ok \in BOOLEAN :
         /\ getTokens(secureStore, r)
              = [accessToken |-> Null, refreshToken |-> Null]
         /\ getUserData(secureStore, ok) = Null
         /\ getLastLogin(secureStore, ok) = Null

C11_Witness ==
  /\ ret.op = "clearAuthData"
  /\ ~ret.threw
  /\ \A k \in CredentialKeys : ret.before.secure[k] # Null
  /\ \A k \in CredentialKeys : secureStore[k] = Null

\* C12: getTokens() never raises, and over a backend whose every read fails
\* it resolves to {accessToken: absent, refreshToken: absent}, whatever is
\* stored.
C12_FailedReadsGiveAbsent ==
  ret.op = "getTokens" =>
    /\ ~ret.threw
    /\ ~ret.arg.access => ret.value.accessToken = Null
    /\ ~ret.arg.refresh => ret.value.refreshToken = Null
    /\ (~ret.arg.access /\ ~ret.arg.refresh)
         => ret.value = [accessToken |-> Null, refreshToken |-> Null]

C12_Witness ==
  /\ ret.op = "getTokens"
  /\ ~ret.arg.access
  /\ ~ret.arg.refresh
  /\ secureStore[STORAGE_KEYS.ACCESS_TOKEN] # Null
  /\ secureStore[STORAGE_KEYS.REFRESH_TOKEN] # Null
  /\ ret.value = [accessToken |-> Null, refreshToken |-> Null]

\* C13, as the specification states it: the key-value store's get and
\* remove never throw to the caller; on a backend failure get resolves to
\* absent and remove resolves as a no-op.
C13_GetAndRemoveNeverThrow ==
  /\ ret.op = "getSecureItem" =>
       /\ ~ret.threw
       /\ ~ret.arg.ok => ret.value = Null
  /\ ret.op = "removeSecureItem" =>
       /\ ~ret.threw
       /\ ~ret.arg.ok => secureStore = ret.before.secure

\* C13: the key-value store's get never throws to the caller: on a backend
\* failure it resolves to absent, and otherwise to the stored value.  Its
\* remove does throw: on a backend failure it rethrows the failure to the
\* caller and leaves the store as it was; otherwise it resolves with the key
\* absent and the other keys untouched.
C13_GetAbsentRemoveRethrows ==
  /\ ret.op = "getSecureItem" =>
       /\ ~ret.threw
       /\ secureStore = ret.before.secure
       /\ ret.value = IF ret.arg.ok THEN secureStore[ret.arg.key] ELSE Null
  /\ ret.op = "removeSecureItem" =>
       /\ ret.threw <=> ~ret.arg.ok
       /\ ~ret.arg.ok => secureStore = ret.before.secure
       /\ ret.arg.ok =>
            secureStore = [ret.before.secure EXCEPT ![ret.arg.key] = Null]

C13_Witness ==
  /\ ret.op = "removeSecureItem"
  /\ ~ret.arg.ok
  /\ ret.threw
  /\ ret.before.secure[ret.arg.key] # Null
  /\ secureStore = ret.before.secure

\* The keys whose write the backend accepted in the last storeTokens call.
AcceptedWrites ==
  {k \in TokenKeys :
     \/ k = STORAGE_KEYS.ACCESS_TOKEN /\ ret.arg.w.access
     \/ k = STORAGE_KEYS.REFRESH_TOKEN /\ ret.arg.w.refresh
     \/ k = STORAGE_KEYS.LAST_LOGIN /\ ret.arg.w.lastLogin}

\* C14: storeTokens issues its three writes (access token, refresh token,
\* last login) together; if any one of them fails the call fails, as one
\* failure, and the writes that succeeded stay stored: nothing is rolled back.
C14_PartialWritesStay ==
  ret.op = "storeTokens" =>
    /\ ret.threw <=> AcceptedWrites # TokenKeys
    /\ ret.wrote = AcceptedWrites
    /\ STORAGE_KEYS.ACCESS_TOKEN \in AcceptedWrites
         => secureStore[STORAGE_KEYS.ACCESS_TOKEN] = Some(ret.arg.accessToken)
    /\ STORAGE_KEYS.REFRESH_TOKEN \in AcceptedWrites
         => secureStore[STORAGE_KEYS.REFRESH_TOKEN] = Some(ret.arg.refreshToken)
    /\ STORAGE_KEYS.LAST_LOGIN \in AcceptedWrites
         => secureStore[STORAGE_KEYS.LAST_LOGIN] = Some(toISOString(ret.at))
    /\ \A k \in CredentialKeys \ AcceptedWrites :
         secureStore[k] = ret.before.secure[k]

C14_Witness ==
  /\ ret.op = "storeTokens"
  /\ ret.threw
  /\ ~ret.arg.w.access
  /\ ret.wrote = {STORAGE_KEYS.REFRESH_TOKEN, STORAGE_KEYS.LAST_LOGIN}
  /\ secureStore[STORAGE_KEYS.ACCESS_TOKEN] = Null
  /\ secureStore[STORAGE_KEYS.REFRESH_TOKEN] = Some("rt1")
  /\ ret.before.secure[STORAGE_KEYS.REFRESH_TOKEN] = Null

\* The keys whose deletion the backend accepted in the last clearAuthData
\* call.
AcceptedRemovals ==
  {k \in CredentialKeys :
     \/ k = STORAGE_KEYS.ACCESS_TOKEN /\ ret.arg.access
     \/ k = STORAGE_KEYS.REFRESH_TOKEN /\ ret.arg.refresh
     \/ k = STORAGE_KEYS.USER_DATA /\ ret.arg.userData
     \/ k = STORAGE_KEYS.LAST_LOGIN /\ ret.arg.lastLogin}

\* C15: clearAuthData issues the four deletions (access token, refresh
\* token, profile, last login) together; if any deletion fails the whole call
\* fails, and every key whose deletion succeeded is absent afterwards, the
\* others being left as they were.
C15_PartialRemovalsStay ==
  ret.op = "clearAuthData" =>
    /\ ret.threw <=> AcceptedRemovals # CredentialKeys
    /\ \A k \in AcceptedRemovals : secureStore[k] = Null
    /\ \A k \in CredentialKeys \ AcceptedRemovals :
         secureStore[k] = ret.before.secure[k]

C15_Witness ==
  /\ ret.op = "clearAuthData"
  /\ ret.threw
  /\ AcceptedRemovals = CredentialKeys \ {STORAGE_KEYS.ACCESS_TOKEN}
  /\ \A k \in CredentialKeys : ret.before.secure[k] # Null
  /\ secureStore[STORAGE_KEYS.ACCESS_TOKEN] # Null
  /\ \A k \in AcceptedRemovals : secureStore[k] = Null

\* C16: a storage failure inside the rate limiter (reading, writing or
\* deleting an attempt record) is treated as no data: a check whose read
\* fails answers isLimited = false, and no check and no recordAttempt ever
\* raises to its caller.
C16_LimiterNeverRaises ==
  \A k \in AttemptKeys :
    /\ ret.op = CheckOp[k] =>
         /\ ~ret.threw
         /\ ~ret.arg.read => ~ret.value.isLimited
    /\ ret.op = RecordOp[k] => ~ret.threw

AuthActions ==
  {"loginUser", "registerUser", "logoutUser", "sendPasswordReset",
   "refreshAuthToken", "getCurrentUser"}

\* C17: loginUser, registerUser, logoutUser, sendPasswordReset,
\* refreshAuthToken and getCurrentUser always resolve to a {success, ...}
\* descriptor and never reject, whatever the identity provider and the storage
\* backends do at any step, the steps of their own catch blocks included; a
\* descriptor with success = false carries an error message.
C17_AuthActionsNeverReject ==
  ret.op \in AuthActions =>
    /\ ~ret.threw
    /\ ret.value.success \in BOOLEAN
    /\ ~ret.value.success => ret.value.error # Null

C17_Witness ==
  /\ ret.op = "loginUser"
  /\ ret.calls = <<"checkLoginRateLimit", "signInWithEmailAndPassword",
                   "getIdToken", "storeTokens", "recordLoginAttempt">>
  /\ ret.wrote = {}
  /\ asyncStorage[LOGIN] = Null
  /\ ~ret.threw
  /\ ~ret.value.success

\* The fault-free answer pattern of the limiter's storage calls.
NoFaults == [read |-> TRUE, write |-> TRUE, remove |-> TRUE]

\* The message of the rate-limit check that the hook call in ret started with.
LimitMessage ==
  IF ret.op = "login"
    THEN checkLoginRateLimit(ret.before.storage, ret.at, NoFaults).value.message
    ELSE checkRegisterRateLimit(ret.before.storage, ret.at, NoFaults).value.message

\* C18: when a sign-in or sign-up made through the useAuth hook is refused
\* by the rate limit, the error the call returns and the error the reducer
\* leaves in the UI auth state are both exactly the message of the
\* rate-limit check, which names the minutes still to wait; the state is
\* signed out and no longer loading.
C18_LimitMessageShown ==
  (ret.op \in {"login", "register"} /\ ret.limited)
    => /\ ~ret.threw
       /\ ret.value = [success |-> FALSE, error |-> Some(LimitMessage)]
       /\ authState = [isAuthenticated |-> FALSE, user |-> Null,
                       isLoading |-> FALSE, error |-> Some(LimitMessage)]
       /\ LimitMessage[2] \in 1..(IF ret.op = "login"
                                     THEN RATE_LIMIT_CONFIG.LOGIN_COOLDOWN_MINUTES
                                     ELSE RATE_LIMIT_CONFIG.REGISTER_COOLDOWN_MINUTES)
       /\ LimitMessage[1] \in {"Too many login attempts. Please wait ",
                                "Too many registration attempts. Please wait "}

\* A refused sign-up some minutes into the cooldown, and a refused sign-in.
C18_Witness ==
  /\ ret.op \in {"login", "register"}
  /\ ret.limited
  /\ authState.error = ret.value.error
  /\ \/ ret.op = "register"
        /\ Val(authState.error)[2] < RATE_LIMIT_CONFIG.REGISTER_COOLDOWN_MINUTES
     \/ ret.op = "login"
        /\ Val(authState.error)[2] = RATE_LIMIT_CONFIG.LOGIN_COOLDOWN_MINUTES

\* The fixed sentences of the catch blocks of loginUser and registerUser.
UserFacingMessages ==
  {<<"Login failed. Please try again.">>,
   <<"Registration failed. Please try again.">>,
   <<"Please enter a valid email address.">>,
   <<"This account has been disabled.">>,
   <<"No account found with this email address.">>,
   <<"Invalid email or password.">>,
   <<"Too many failed attempts. Please try again later.">>,
   <<"Network error. Please check your connection.">>,
   <<"An account with this email already exists.">>,
   <<"Email/password accounts are not enabled.">>,
   <<"Password should be at least 6 characters long.">>}

\* The call in ret is a sign-in or sign-up that went to its catch block
\* straight from a rejected storeTokens or storeUserData.
WriteFailed ==
  /\ ret.op \in {"loginUser", "registerUser"}
  /\ Len(ret.calls) >= 2
  /\ ret.calls[Len(ret.calls) - 1] \in {"storeTokens", "storeUserData"}
  /\ ret.calls[Len(ret.calls)] \in {"recordLoginAttempt", "recordRegisterAttempt"}
  /\ ~ret.threw
  /\ ~ret.value.success

\* C19: when storeTokens or storeUserData fails during loginUser or
\* registerUser, the error of the failure descriptor is one of the fixed
\* user-facing sentences, never the message of the storage error itself.
C19_WriteFailureGeneric ==
  WriteFailed
    => /\ ret.value.error # Null
       /\ Val(ret.value.error) \in UserFacingMessages
       /\ Val(ret.value.error) # StorageError.message

LimiterOps ==
  {"checkLoginRateLimit", "checkRegisterRateLimit", "recordLoginAttempt",
   "recordRegisterAttempt", "clearRateLimitData"}

\* C20: the attempt records and the credentials are kept under disjoint
\* keys; clearAuthData, whether it succeeds or fails, leaves both attempt
\* records as they were, and checkLoginRateLimit, checkRegisterRateLimit,
\* recordLoginAttempt, recordRegisterAttempt and clearRateLimitData leave
\* the access token, the refresh token, the last-login time and the profile
\* as they were.
C20_Independent ==
  /\ AttemptKeys \cap CredentialKeys = {}
  /\ DOMAIN asyncStorage = AttemptKeys
  /\ DOMAIN secureStore = CredentialKeys
  /\ ret.op = "clearAuthData" => asyncStorage = ret.before.storage
  /\ ret.op \in LimiterOps => secureStore = ret.before.secure

\* A failed attempt is recorded on a signed-in device, which keeps its
\* credentials, and clearAuthData then empties the credential store and
\* keeps the attempt record.
C20_Witness ==
  /\ ret.op = "clearAuthData"
  /\ ~ret.threw
  /\ \A k \in CredentialKeys : ret.before.secure[k] # Null
  /\ \A k \in CredentialKeys : secureStore[k] = Null
  /\ \E k \in AttemptKeys : asyncStorage[k] # Null

\* Both callers have recorded a failed attempt of kind k and returned.
BothReturned(k) ==
  \A p \in Callers : inflight[p].pc = "returned" /\ inflight[p].key = k

\* The least count stored when one of the callers made its call.
LeastSeen ==
  CHOOSE m \in {inflight[p].seen : p \in Callers} :
    \A p \in Callers : inflight[p].seen >= m

\* C21: two recordAttempt(false) calls of the same kind that interleave at
\* their storage suspension points and both read the same count c leave the
\* stored count at c + 1 (the last write wins); whatever the interleaving,
\* the stored count ends at least 1 and at most 2 above the count stored
\* when the first of them was called.
C21_LastWriteWins ==
  \A k \in AttemptKeys :
    BothReturned(k) =>
      /\ StoredCount(k) \in {LeastSeen + 1, LeastSeen + 2}
      /\ (\A p, q \in Callers : inflight[p].count = inflight[q].count)
           => StoredCount(k) = LeastSeen + 1

\* Both calls read count 2 and the record ends at 3, not 4.
C21_Witness ==
  /\ BothReturned(LOGIN)
  /\ \A p \in Callers : inflight[p].count = 2
  /\ StoredCount(LOGIN) = 3

\* The delay a failed attempt that left the count at n waits for.
BackoffOf(n) ==
  IF n > 1
    THEN calculateBackoffDelay(n, RATE_LIMIT_CONFIG.BASE_DELAY_MS,
                               RATE_LIMIT_CONFIG.MAX_DELAY_MS)
    ELSE 0

\* Caller p's loginUser / registerUser failed and raised the count.
RecordedFailure(p) ==
  /\ inflight[p].fn \in {"loginUser", "registerUser"}
  /\ inflight[p].count = inflight[p].seen + 1

\* C22: a loginUser / registerUser call that recorded a failed attempt
\* returns no earlier than the backoff delay computed for the new count after
\* the call was made (until then it stays suspended, and its caller starts no
\* other call), and a call suspended in the backoff wait eventually returns.
C22_WaitRunsOut ==
  /\ [](\A p \in Callers :
          RecordedFailure(p) =>
            /\ inflight[p].pc \in {"delay", "returned"}
            /\ inflight[p].pc = "returned"
                 => now >= inflight[p].at + BackoffOf(inflight[p].count))
  /\ \A p \in Callers :
       (inflight[p].pc = "delay") ~> (inflight[p].pc = "returned")

\* A third failed sign-in has returned exactly when its 4 s were over.
C22_Witness ==
  \E p \in Callers :
    /\ inflight[p].fn = "loginUser"
    /\ inflight[p].pc = "returned"
    /\ inflight[p].count = 3
    /\ inflight[p].seen = 2
    /\ now = inflight[p].at + 4000

\* The requests of kind fn that are in flight.
InFlight(fn) == {p \in Callers : inflight[p].fn = fn /\ inflight[p].pc = "await"}

\* C23: at most one login request and at most one register request started
\* from the screens is in flight at any time.
C23_OneInFlight ==
  \A fn \in {"login", "register"} : Cardinality(InFlight(fn)) <= 1

COOLDOWN_MINUTES ==
  [k \in AttemptKeys |->
     IF k = LOGIN THEN RATE_LIMIT_CONFIG.LOGIN_COOLDOWN_MINUTES
     ELSE RATE_LIMIT_CONFIG.REGISTER_COOLDOWN_MINUTES]

\* The last call found a record of kind k whose count has reached the
\* maximum and whose cooldown has not run out.
ThrottledBefore(k) ==
  /\ ret.before.storage[k] # Null
  /\ CountBefore(k) >= MAX_ATTEMPTS[k]
  /\ ret.at < LastAttemptBefore(k) + (COOLDOWN_MINUTES[k] * 60000)

\* C24: for each kind, the rate-limit check answers isLimited = true exactly
\* when a record is stored whose count has reached the kind's maximum (5 for
\* login, 3 for registration) and the clock is before lastAttempt + the
\* kind's cooldown (15 and 5 minutes); the wait it then reports is
\* ceil((cooldownEnd - now) / 60000), between 1 and the cooldown in minutes.
C24_LimitedExactlyWhen ==
  /\ MAX_ATTEMPTS = [k \in AttemptKeys |-> IF k = LOGIN THEN 5 ELSE 3]
  /\ COOLDOWN_MINUTES = [k \in AttemptKeys |-> IF k = LOGIN THEN 15 ELSE 5]
  /\ \A k \in AttemptKeys :
       ret.op = CheckOp[k] =>
         /\ ~ret.threw
         /\ ret.value.isLimited = ThrottledBefore(k)
         /\ ret.value.isLimited =>
              LET left == LastAttemptBefore(k) + (COOLDOWN_MINUTES[k] * 60000) - ret.at
              IN  /\ ret.value.waitTime * 60000 >= left
                  /\ (ret.value.waitTime - 1) * 60000 < left
                  /\ ret.value.waitTime \in 1..COOLDOWN_MINUTES[k]

\* A registration check in the last millisecond of the cooldown, with more
\* than the maximum stored, answers limited with one minute to wait.
C24_Witness ==
  /\ ret.op = "checkRegisterRateLimit"
  /\ CountBefore(REGISTER) > 3
  /\ ret.at = LastAttemptBefore(REGISTER) + (5 * 60000) - 1
  /\ ret.value.isLimited
  /\ ret.value.waitTime = 1

\* The token getIdToken issued to the call in ret.
IssuedToken ==
  IF ret.before.secure[STORAGE_KEYS.ACCESS_TOKEN] = Some("tokA") THEN "tokB"
  ELSE "tokA"

\* The last three collaborator calls of the call in ret.
LastThreeCalls == SubSeq(ret.calls, Len(ret.calls) - 2, Len(ret.calls))

\* C25: when loginUser or registerUser returns success = true, the stored
\* access token is the token the identity provider just issued, the stored
\* profile is the user returned to the caller, the attempt record of that
\* kind is absent, all four credential keys were written, and the last
\* three calls were storeTokens, storeUserData and recordAttempt(true), in
\* that order.
C25_SuccessStoresAll ==
  \A k \in AttemptKeys :
    LET op == IF k = LOGIN THEN "loginUser" ELSE "registerUser"
    IN  (ret.op = op /\ ~ret.threw /\ ret.value.success)
          => /\ secureStore[STORAGE_KEYS.ACCESS_TOKEN] = Some(IssuedToken)
             /\ secureStore[STORAGE_KEYS.USER_DATA] # Null
             /\ Some(JSONparse(Val(secureStore[STORAGE_KEYS.USER_DATA])))
                  = ret.value.user
             /\ asyncStorage[k] = Null
             /\ ret.wrote = CredentialKeys
             /\ Len(ret.calls) >= 3
             /\ LastThreeCalls = <<"storeTokens", "storeUserData", RecordOp[k]>>

\* A sign-in that succeeds after failed ones, over the credentials of an
\* earlier sign-in.
C25_Witness ==
  /\ ret.op = "loginUser"
  /\ ret.value.success
  /\ ret.before.storage[LOGIN] # Null
  /\ ret.before.secure[STORAGE_KEYS.ACCESS_TOKEN] = Some("tokA")
  /\ secureStore[STORAGE_KEYS.ACCESS_TOKEN] = Some("tokB")
  /\ asyncStorage[LOGIN] = Null

\* In the call in ret the provider accepted the sign-in or created the
\* account: the call went on to updateProfile or getIdToken.
ProviderAccepted ==
  \E i \in 1..Len(ret.calls) : ret.calls[i] \in {"updateProfile", "getIdToken"}

\* C26: a loginUser / registerUser call in which the provider accepted the
\* sign-in or created the account returns success = true and does not
\* raise the stored count of its kind.
C26_OnlyRejectionsCount ==
  \A k \in AttemptKeys :
    LET op == IF k = LOGIN THEN "loginUser" ELSE "registerUser"
    IN  (ret.op = op /\ ProviderAccepted)
          => /\ ~ret.threw
             /\ ret.value.success
             /\ StoredCount(k) <= CountBefore(k)

SignOp == [k \in AttemptKeys |-> IF k = LOGIN THEN "loginUser" ELSE "registerUser"]

C28_RefusedChangesNothing ==
  \A k \in AttemptKeys :
    (ret.op = SignOp[k] /\ ret.limited)
      => /\ ~ret.value.success
         /\ ret.calls = <<CheckOp[k]>>
         /\ ret.delayMs = 0
         /\ asyncStorage = ret.before.storage
         /\ StoredLastAttempt(k) + COOLDOWN_MS[k] > ret.at

\* A sign-up refused a minute or more into the cooldown.
C28_Witness ==
  /\ ret.op = "registerUser"
  /\ ret.limited
  /\ ret.at >= StoredLastAttempt(REGISTER) + 60000
  /\ StoredCount(REGISTER) = RATE_LIMIT_CONFIG.MAX_REGISTER_ATTEMPTS

\* C29: the listener's callback always ends in a dispatch of
\* AUTH_STATE_CHANGED, whatever the credential store answers: after start-up
\* isLoading eventually becomes false, and once the provider has no user
\* while the listener is subscribed, the UI eventually shows nobody signed in.
C29_ListenerAlwaysDispatches ==
  /\ <>(~authState.isLoading)
  /\ (listener.started /\ isFirebaseConfigured /\ currentUser = Null)
       ~> (~authState.isAuthenticated)

\* A login or a registration started from the hook gets its answer in this
\* step.
SignInEnds(p) ==
  /\ inflight[p].fn \in {"login", "register"}
  /\ inflight[p].pc = "await"
  /\ inflight'[p].pc = "idle"

\* C30: whatever the auth context dispatches, a state that says somebody is
\* signed in names the user; and a login or a registration that ends either
\* failed, leaving an error, nobody signed in and no user, or succeeded,
\* leaving no error and the user signed in.
C30_AuthenticatedHasUser ==
  /\ [](authState.isAuthenticated => authState.user # Null)
  /\ [][\A p \in Callers :
          SignInEnds(p)
            => IF authState'.error # Null
                 THEN ~authState'.isAuthenticated /\ authState'.user = Null
                 ELSE authState'.isAuthenticated /\ authState'.user # Null]_vars

\* A login or registration has failed although the provider holds a user:
\* the reducer state shows the error, nobody signed in and no user.
C30_Witness ==
  /\ authState.error # Null
  /\ ~authState.isAuthenticated
  /\ authState.user = Null
  /\ currentUser # Null
  /\ listener.started
  /\ \A p \in Callers : inflight[p].pc = "idle"
====
